---- MODULE Spec2Model ----
(***************************************************************************)
(* BrokerFlow transactional core: agreements, referral matches, the        *)
(* timeline ledger, the outbox and the e-sign idempotency registry, as     *)
(* concurrent PostgreSQL transactions (READ COMMITTED, row locks held      *)
(* until commit or rollback).                                              *)
(***************************************************************************)
EXTENDS Integers, Sequences, FiniteSets, TLC

\* ------------------------------------------------------------------ bounds
NProcs == 2
MaxClock == 3
MaxAgreements == 2
NKeys == 2
MaxDisputes == 1
MaxInvoices == 2
NRoutes == 2
MaxEffects == 2
MaxAudit == 2
MaxAttempts == 2
MaxReason == 3

Procs == 1..NProcs
AgIds == 1..MaxAgreements
Keys == 1..NKeys
DisputeIds == 1..MaxDisputes
InvoiceIds == 1..MaxInvoices
Routes == 1..NRoutes

NULL == 0

\* ---------------------------------------------------------------- fixtures
\* users 1 (referral owner), 2 and 3 (candidates); users.broker_id, NULL for
\* user 4, who belongs to no broker
Users == {1, 2, 3}
UserBroker == <<1, 2, 3, 0>>
\* one open referral request created by user 1
Referrals == {1}
ReferralOwner == <<1>>
\* two invited matches on referral 1, for candidates 2 and 3, and a third
\* for user 4
Matches == {1, 2}
BrokerlessMatch == 3
AllMatches == Matches \cup {BrokerlessMatch}
MatchRequest == <<1, 1, 1>>
MatchCandidate == <<2, 3, 4>>
\* broker pairs a caller of CRUDService.Create supplies
BrokerPairs == {<<1, 2>>}
\* the users who issue status changes and e-sign completions
Actors == {1, 3}

\* the states a caller of UpdateState may ask for
MatchStates == {"accepted", "declined"}

AgreementStatus ==
    {"draft", "pending_signature", "effective", "success", "void", "disputed", "closed"}

VARIABLES agreements, referral_requests, referral_matches, timeline_events,
          outbox, idempotency, disputes, audit_logs, invoices, edge_invocations,
          edge_effects, agreements_region_audit, cancel_reason, now, tx, ret

\* the tables and columns only the PII accessor, the invoice seed, the edge
\* adapters, the region trigger and the referral service write; cancel_reason
\* is the column referral_requests.cancel_reason, one pointer per referral
side_tables == <<audit_logs, invoices, edge_invocations, edge_effects,
                 agreements_region_audit, cancel_reason>>

\* a *string: Nil, or Ptr(s) for the string s, a sequence of characters
Nil == <<>>
Ptr(s) == <<s>>

vars == <<agreements, referral_requests, referral_matches, timeline_events,
          outbox, idempotency, disputes, side_tables, now, tx, ret>>

tables == <<agreements, referral_requests, referral_matches, timeline_events,
            outbox, idempotency, disputes, side_tables>>

\* ------------------------------------------------------------------ schema
NoRow == [status |-> "none"]

\* agreements.region TEXT NOT NULL DEFAULT 'us-ea'
DefaultRegion == "us-ea"

\* the regions an UPDATE of agreements.region may name
Regions == {"us-ea", "eu-we"}

\* a freshly inserted agreements row (column defaults of CREATE TABLE agreements)
NewAgreement(r, from, to, st) ==
    [referral_id |-> r, from_broker_id |-> from, to_broker_id |-> to,
     status |-> st, effective_at |-> NULL, pii_first_access_time |-> NULL,
     status_updated_by |-> NULL, event_seq |-> 0, region |-> DefaultRegion]

Exists(ags, a) == a \in AgIds /\ ags[a] # NoRow

FreeIds(ags) == {a \in AgIds : ags[a] = NoRow}

\* gen_random_uuid(): a fresh identifier
NewId(ags) == CHOOSE a \in FreeIds(ags) : \A b \in FreeIds(ags) : a <= b

\* fault variant: the CHECK constraint dropped
chk_agreement_effective_at_pair_dropped(row) == TRUE

\* CHECK chk_agreement_effective_at_pair
chk_agreement_effective_at_pair(row) ==
    \/ row.status \in {"effective", "success", "disputed"} /\ row.effective_at # NULL
    \/ row.status \in {"draft", "pending_signature", "void", "closed"} /\ row.effective_at = NULL

\* fault variant: the partial unique index dropped
agreements_one_active_per_referral_dropped(ags, a, row) == TRUE

\* UNIQUE INDEX agreements_one_active_per_referral: TRUE when writing row
\* under id a keeps the index unique
agreements_one_active_per_referral(ags, a, row) ==
    row.status \in {"pending_signature", "effective"} =>
        \A b \in AgIds : (b # a /\ ags[b] # NoRow /\ ags[b].referral_id = row.referral_id)
                            => ags[b].status \notin {"pending_signature", "effective"}

\* fault variant: the validation function accepts every pair
agreement_validate_transition_any(prev, next) == TRUE

\* agreement_validate_transition(prev, next)
agreement_validate_transition(prev, next) ==
    \/ prev = next
    \/ prev = "draft" /\ next \in {"pending_signature", "void"}
    \/ prev = "pending_signature" /\ next \in {"effective", "void"}
    \/ prev = "effective" /\ next \in {"success", "disputed", "void", "closed"}
    \/ prev = "disputed" /\ next \in {"void", "closed"}
    \/ prev = "success" /\ next = "closed"
    \/ prev = "void" /\ next = "closed"

\* fault variant: the counter skips a value
next_event_seq_skip(row) == row.event_seq + 2

\* next_event_seq: UPDATE agreements SET event_seq = event_seq + 1 RETURNING event_seq
next_event_seq(row) == row.event_seq + 1

\* setTimelineBroker: the value SET LOCAL app.broker_id receives
setTimelineBroker(fromBrokerID, toBrokerID, actorID) ==
    IF actorID # NULL /\ actorID \in Users
           /\ UserBroker[actorID] # NULL
           /\ UserBroker[actorID] \in {fromBrokerID, toBrokerID}
    THEN UserBroker[actorID]
    ELSE fromBrokerID

\* the event types check_temporal_integrity gates on the agreement's state
GatedTypes == {"OFFER_MADE", "ESIGN_COMPLETED", "DEAL_CLOSED"}

\* fault variant: the temporal trigger lets every event through
check_temporal_integrity_off(row, type, ts) == ""

\* trigger function check_temporal_integrity, on the locked agreement row
\* (NoRow when the agreement does not exist: effective_at reads NULL)
check_temporal_integrity(row, type, ts) ==
    IF type \notin GatedTypes THEN ""
    ELSE IF row # NoRow /\ row.status \notin {"effective", "success", "disputed"}
    THEN "temporal_state"
    ELSE IF row = NoRow \/ row.effective_at = NULL \/ ts < row.effective_at
    THEN "temporal_time"
    ELSE ""

\* fault variant: the writer guard lets every insert through
trg_guard_timeline_writer_open(row, caller_broker) == ""

\* trigger function trg_guard_timeline_writer; caller_broker is the value of
\* the setting app.broker_id (NULL when the transaction never set it)
trg_guard_timeline_writer(row, caller_broker) ==
    IF caller_broker = NULL THEN "broker_context_required"
    ELSE IF row = NoRow \/ caller_broker \notin {row.from_broker_id, row.to_broker_id}
    THEN "unauthorized"
    ELSE ""

\* CONSTRAINT timeline_events_agreement_id_seq_unique
timeline_events_agreement_id_seq_unique(tl, a, seq) ==
    ~\E i \in 1..Len(tl) : tl[i].agreement_id = a /\ tl[i].seq = seq

\* fault variant: the event is stamped with the clock reading at the insert
\* instead of the transaction's start time
TimelineInsert_clock(ags, tl, a, type, actor, match_id, caller_broker, ts) ==
    LET seq  == next_event_seq(ags[a])
        ags1 == [ags EXCEPT ![a].event_seq = seq]
        row  == ags1[a]
        ev   == [agreement_id |-> a, seq |-> seq, type |-> type, actor_id |-> actor,
                 match_id |-> match_id, actor_broker_id |-> caller_broker, ts |-> now]
        e1   == check_temporal_integrity(row, type, ts)
        e2   == trg_guard_timeline_writer(row, caller_broker)
    IN  IF e1 # ""
        THEN [ok |-> FALSE, err |-> e1, agreements |-> ags, timeline |-> tl]
        ELSE IF e2 # ""
        THEN [ok |-> FALSE, err |-> e2, agreements |-> ags, timeline |-> tl]
        ELSE IF ~timeline_events_agreement_id_seq_unique(tl, a, seq)
        THEN [ok |-> FALSE, err |-> "23505", agreements |-> ags, timeline |-> tl]
        ELSE [ok |-> TRUE, err |-> "", agreements |-> ags1, timeline |-> Append(tl, ev)]

\* INSERT INTO timeline_events (agreement_id, type, payload, actor_id) with the
\* BEFORE INSERT triggers timeline_seq, trg_check_temporal_integrity and
\* trg_guard_timeline_writer, in that (alphabetical) firing order.  ags is the
\* inserting transaction's view of agreements; the result carries the view
\* after the insert.
TimelineInsert(ags, tl, a, type, actor, match_id, caller_broker, ts) ==
    LET seq  == next_event_seq(ags[a])
        ags1 == [ags EXCEPT ![a].event_seq = seq]
        row  == ags1[a]
        ev   == [agreement_id |-> a, seq |-> seq, type |-> type, actor_id |-> actor,
                 match_id |-> match_id, actor_broker_id |-> caller_broker, ts |-> ts]
        e1   == check_temporal_integrity(row, type, ts)
        e2   == trg_guard_timeline_writer(row, caller_broker)
    IN  IF e1 # ""
        THEN [ok |-> FALSE, err |-> e1, agreements |-> ags, timeline |-> tl]
        ELSE IF e2 # ""
        THEN [ok |-> FALSE, err |-> e2, agreements |-> ags, timeline |-> tl]
        ELSE IF ~timeline_events_agreement_id_seq_unique(tl, a, seq)
        THEN [ok |-> FALSE, err |-> "23505", agreements |-> ags, timeline |-> tl]
        ELSE [ok |-> TRUE, err |-> "", agreements |-> ags1, timeline |-> Append(tl, ev)]

\* fault variant: the message names no agreement
OutboxRow_anonymous(topic, a) ==
    [topic |-> topic, agreement_id |-> NULL, status |-> "pending", attempts |-> 0,
     last_attempt |-> NULL]

\* INSERT INTO outbox (topic, payload)
OutboxRow(topic, a) ==
    [topic |-> topic, agreement_id |-> a, status |-> "pending", attempts |-> 0,
     last_attempt |-> NULL]

\* ------------------------------------------------------------ transactions
Idle == [pc |-> "idle"]
NoRes == [op |-> "none"]

Busy(p) == tx[p].pc # "idle"

LocksOf(p) == IF Busy(p) THEN tx[p].locks ELSE {}

\* a row lock (or a reserved unique key) is free for p when no other open
\* transaction holds it
Free(p, lock) == \A q \in Procs \ {p} : lock \notin LocksOf(q)

\* a call is served once the result of the previous one has been taken
CanCall(p) == ret = NoRes /\ ~Busy(p)

\* p's open transaction is at the statement pc
At(p, pc) == ret = NoRes /\ tx[p].pc = pc

Init ==
    /\ agreements = [a \in AgIds |-> NoRow]
    /\ referral_requests = [r \in Referrals |-> "open"]
    /\ cancel_reason = [r \in Referrals |-> Nil]
    /\ referral_matches = [m \in AllMatches |-> "invited"]
    /\ timeline_events = <<>>
    /\ outbox = <<>>
    /\ idempotency = {}
    /\ disputes = [d \in DisputeIds |-> NoRow]
    /\ audit_logs = <<>>
    /\ invoices = [i \in InvoiceIds |-> NoRow]
    /\ edge_invocations = [rk \in Routes \X Keys |-> "none"]
    /\ edge_effects = [rk \in Routes \X Keys |-> 0]
    /\ agreements_region_audit = <<>>
    /\ now = 0
    /\ tx = [p \in Procs |-> Idle]
    /\ ret = NoRes

\* the transaction ends (commit or rollback): locks are released and the call returns
Return(p, result) ==
    /\ tx' = [tx EXCEPT ![p] = Idle]
    /\ ret' = result

\* the step returns from no call
NoReturn == ret' = NoRes

Result(p, op, err, ag) == [op |-> op, proc |-> p, ok |-> (err = ""), err |-> err, ag |-> ag]

\* what a Transition call returns, with the request it was given
TransitionResult(p, err, a, next, actorID) ==
    [op |-> "Transition", proc |-> p, ok |-> (err = ""), err |-> err, ag |-> a,
     next |-> next, actor |-> actorID]

\* ------------------------------------------------ harness Creator (actors.go)
\* one autocommit INSERT of a pending_signature agreement for the shared referral
Creator(p, r) ==
    /\ CanCall(p)
    /\ UNCHANGED <<side_tables, referral_requests, referral_matches, timeline_events, outbox,
                   idempotency, disputes>>
    /\ LET row == NewAgreement(r, 1, 2, "pending_signature")
       IN  \/ /\ ~agreements_one_active_per_referral(agreements, NULL, row)
              /\ UNCHANGED <<agreements, now>>
              /\ Return(p, Result(p, "Creator", "23505", NULL))
           \/ /\ agreements_one_active_per_referral(agreements, NULL, row)
              /\ now < MaxClock
              /\ FreeIds(agreements) # {}
              /\ now' = now + 1
              /\ agreements' = [agreements EXCEPT ![NewId(agreements)] = row]
              /\ Return(p, Result(p, "Creator", "", NewId(agreements)))

\* ------------------------------------------------------ CRUDService.Create
\* commit = FALSE: tx.Commit fails or the context is cancelled, deferred Rollback
Create(p, userID, r, pair, commit) ==
    /\ CanCall(p)
    /\ UNCHANGED <<side_tables, referral_requests, referral_matches, idempotency, disputes>>
    /\ \/ /\ ReferralOwner[r] # userID
          /\ UNCHANGED <<agreements, timeline_events, outbox, now>>
          /\ Return(p, Result(p, "Create", "referral does not belong to user", NULL))
       \/ /\ ReferralOwner[r] = userID
          /\ now < MaxClock
          /\ FreeIds(agreements) # {}
          /\ LET a    == NewId(agreements)
                 ags1 == [agreements EXCEPT ![a] = NewAgreement(r, pair[1], pair[2], "draft")]
                 ins  == TimelineInsert(ags1, timeline_events, a, "AGREEMENT_CREATED", NULL, NULL,
                                        setTimelineBroker(pair[1], pair[2], NULL), now + 1)
             IN  IF ins.ok /\ commit
                 THEN /\ now' = now + 1
                      /\ agreements' = ins.agreements
                      /\ timeline_events' = ins.timeline
                      /\ outbox' = Append(outbox, OutboxRow("agreement.created", a))
                      /\ Return(p, Result(p, "Create", "", a))
                 ELSE /\ UNCHANGED <<agreements, timeline_events, outbox, now>>
                      /\ Return(p, Result(p, "Create", IF ins.ok THEN "commit" ELSE ins.err, NULL))

\* ------------------------------------------------- StatusService.Transition
\* pool.Begin: the transaction timestamp is taken here
TransitionBegin(p, a) ==
    /\ CanCall(p)
    /\ now < MaxClock
    /\ now' = now + 1
    /\ tx' = [tx EXCEPT ![p] = [pc |-> "transition_lock", op |-> "Transition", ts |-> now + 1,
                                locks |-> {}, a |-> a, next |-> "none"]]
    /\ NoReturn
    /\ UNCHANGED tables

\* SELECT status, from_broker_id, to_broker_id ... FOR UPDATE, then
\* agreement_validate_transition(current, next)
TransitionLock(p, next) ==
    /\ At(p, "transition_lock")
    /\ UNCHANGED <<tables, now>>
    /\ LET a == tx[p].a
       IN  IF ~Exists(agreements, a)
           THEN Return(p, TransitionResult(p, "fetch current status", a, next, NULL))
           ELSE /\ Free(p, <<"agreement", a>>)
                /\ IF agreement_validate_transition(agreements[a].status, next)
                   THEN /\ tx' = [tx EXCEPT ![p].pc = "transition_write",
                                            ![p].locks = {<<"agreement", a>>},
                                            ![p].next = next]
                        /\ NoReturn
                   ELSE Return(p, TransitionResult(p, "invalid transition", a, next, NULL))

\* the UPDATE of the locked row under the table's CHECK and unique index
TransitionUpdate(ags, a, next, actorID) ==
    LET row == [ags[a] EXCEPT !.status = next, !.status_updated_by = actorID]
    IN  IF ~chk_agreement_effective_at_pair(row)
        THEN [ok |-> FALSE, err |-> "23514", agreements |-> ags]
        ELSE IF ~agreements_one_active_per_referral(ags, a, row)
        THEN [ok |-> FALSE, err |-> "23505", agreements |-> ags]
        ELSE [ok |-> TRUE, err |-> "", agreements |-> [ags EXCEPT ![a] = row]]

\* UPDATE agreements, setTimelineBroker, INSERT timeline_events, INSERT outbox, Commit
TransitionWrite(p, actorID, commit) ==
    /\ At(p, "transition_write")
    /\ Free(p, <<"advisory", tx[p].a>>)
    /\ UNCHANGED <<side_tables, referral_requests, referral_matches, idempotency, disputes, now>>
    /\ LET a   == tx[p].a
           upd == TransitionUpdate(agreements, a, tx[p].next, actorID)
           ins == TimelineInsert(upd.agreements, timeline_events, a, "AGREEMENT_STATUS_CHANGED",
                                 actorID, NULL,
                                 setTimelineBroker(agreements[a].from_broker_id,
                                                   agreements[a].to_broker_id, actorID),
                                 tx[p].ts)
       IN  IF upd.ok /\ ins.ok /\ commit
           THEN /\ agreements' = ins.agreements
                /\ timeline_events' = ins.timeline
                /\ outbox' = Append(outbox, OutboxRow("agreement.status_changed", a))
                /\ Return(p, TransitionResult(p, "", a, tx[p].next, actorID))
           ELSE /\ UNCHANGED <<agreements, timeline_events, outbox>>
                /\ Return(p, TransitionResult(p, IF ~upd.ok THEN upd.err
                                                  ELSE IF ~ins.ok THEN ins.err ELSE "commit",
                                               a, tx[p].next, actorID))

\* ---------------------------------- Service.HandleEsignCompletionWebhook
\* what a HandleEsignCompletionWebhook call returns, with the request it was
\* given and its transaction timestamp; replay: the duplicate-key branch returned
EsignResult(p, err, a, key, replay) ==
    [op |-> "HandleEsignCompletionWebhook", proc |-> p, ok |-> (err = ""), err |-> err,
     ag |-> a, key |-> key, replay |-> replay, ts |-> tx[p].ts]

\* pool.Begin for a request (agreement a, idempotency key)
EsignBegin(p, a, key) ==
    /\ CanCall(p)
    /\ now < MaxClock
    /\ now' = now + 1
    /\ tx' = [tx EXCEPT ![p] = [pc |-> "esign_key", op |-> "HandleEsignCompletionWebhook",
                                ts |-> now + 1, locks |-> {}, a |-> a, key |-> key]]
    /\ NoReturn
    /\ UNCHANGED tables

\* fault variant: the key is never found to be a duplicate
InsertIdempotencyKey_blind(idem, key) == "reserved"

\* Repository.InsertIdempotencyKey: INSERT INTO idempotency (key); a committed
\* key is a unique violation (ErrDuplicateIdempotencyKey, the call returns nil);
\* a key reserved by an open transaction makes the insert wait
InsertIdempotencyKey(idem, key) == IF key \in idem THEN "duplicate" ELSE "reserved"

\* fault variant: a reserved key does not make the insert wait (no primary key)
EsignKey_nowait(p) ==
    /\ At(p, "esign_key")
    /\ UNCHANGED <<tables, now>>
    /\ IF InsertIdempotencyKey(idempotency, tx[p].key) = "duplicate"
       THEN Return(p, EsignResult(p, "", tx[p].a, tx[p].key, TRUE))
       ELSE /\ tx' = [tx EXCEPT ![p].pc = "esign_run", ![p].locks = {<<"key", tx[p].key>>}]
            /\ NoReturn

\* fault variant: the key is looked up per agreement (a committed key counts
\* as a duplicate only for an agreement that has its completion recorded)
EsignKey_peragreement(p) ==
    /\ At(p, "esign_key")
    /\ UNCHANGED <<tables, now>>
    /\ Free(p, <<"key", tx[p].key>>)
    /\ IF /\ InsertIdempotencyKey(idempotency, tx[p].key) = "duplicate"
          /\ \E i \in 1..Len(timeline_events) :
                /\ timeline_events[i].agreement_id = tx[p].a
                /\ timeline_events[i].type = "ESIGN_COMPLETED"
       THEN Return(p, EsignResult(p, "", tx[p].a, tx[p].key, TRUE))
       ELSE /\ tx' = [tx EXCEPT ![p].pc = "esign_run", ![p].locks = {<<"key", tx[p].key>>}]
            /\ NoReturn

\* InsertIdempotencyKey inside the open transaction
EsignKey(p) ==
    /\ At(p, "esign_key")
    /\ UNCHANGED <<tables, now>>
    /\ Free(p, <<"key", tx[p].key>>)
    /\ IF InsertIdempotencyKey(idempotency, tx[p].key) = "duplicate"
       THEN Return(p, EsignResult(p, "", tx[p].a, tx[p].key, TRUE))
       ELSE /\ tx' = [tx EXCEPT ![p].pc = "esign_run", ![p].locks = {<<"key", tx[p].key>>}]
            /\ NoReturn

\* fault variant: the UPDATE restamps effective_at on every completion
markAgreementEffective_restamp(ags, a, ts) ==
    LET row == [ags[a] EXCEPT !.status = "effective", !.effective_at = ts]
    IN  IF ~chk_agreement_effective_at_pair(row)
        THEN [ok |-> FALSE, err |-> "23514", agreements |-> ags]
        ELSE IF ~agreements_one_active_per_referral(ags, a, row)
        THEN [ok |-> FALSE, err |-> "23505", agreements |-> ags]
        ELSE [ok |-> TRUE, err |-> "", agreements |-> [ags EXCEPT ![a] = row]]

\* Repository.markAgreementEffective: UPDATE agreements SET status = 'effective',
\* effective_at = COALESCE(effective_at, get_tx_timestamp()) WHERE id = $1
markAgreementEffective(ags, a, ts) ==
    LET row == [ags[a] EXCEPT !.status = "effective",
                              !.effective_at = IF @ # NULL THEN @ ELSE ts]
    IN  IF ~chk_agreement_effective_at_pair(row)
        THEN [ok |-> FALSE, err |-> "23514", agreements |-> ags]
        ELSE IF ~agreements_one_active_per_referral(ags, a, row)
        THEN [ok |-> FALSE, err |-> "23505", agreements |-> ags]
        ELSE [ok |-> TRUE, err |-> "", agreements |-> [ags EXCEPT ![a] = row]]

\* Repository.ExecuteEsignCompletionTx up to markAgreementEffective: the UPDATE
\* takes the agreement's row lock, or returns its error
EsignMark(p) ==
    /\ At(p, "esign_run")
    /\ UNCHANGED <<tables, now>>
    /\ LET a == tx[p].a
       IN  IF ~Exists(agreements, a)
           THEN Return(p, EsignResult(p, "not found", a, tx[p].key, FALSE))
           ELSE /\ Free(p, <<"agreement", a>>)
                /\ IF markAgreementEffective(agreements, a, tx[p].ts).ok
                   THEN /\ tx' = [tx EXCEPT ![p].pc = "esign_event",
                                            ![p].locks = @ \cup {<<"agreement", a>>}]
                        /\ NoReturn
                   ELSE Return(p, EsignResult(p, markAgreementEffective(agreements, a,
                                                                        tx[p].ts).err,
                                              a, tx[p].key, FALSE))

\* fault variant: the key is inserted outside the transaction and survives
\* the rollback of a failed completion
EsignRun_keepkey(p, actorID, commit) ==
    /\ At(p, "esign_event")
    /\ Free(p, <<"advisory", tx[p].a>>)
    /\ UNCHANGED <<side_tables, referral_requests, referral_matches, disputes, now>>
    /\ LET a    == tx[p].a
           mark == markAgreementEffective(agreements, a, tx[p].ts)
           ins  == TimelineInsert(mark.agreements, timeline_events, a,
                                  "ESIGN_COMPLETED", actorID, NULL,
                                  setTimelineBroker(agreements[a].from_broker_id,
                                                    agreements[a].to_broker_id,
                                                    actorID),
                                  tx[p].ts)
       IN  /\ idempotency' = idempotency \cup {tx[p].key}
           /\ IF mark.ok /\ ins.ok /\ commit
              THEN /\ agreements' = ins.agreements
                   /\ timeline_events' = ins.timeline
                   /\ outbox' = Append(outbox, OutboxRow("agreement.effective", a))
                   /\ Return(p, EsignResult(p, "", a, tx[p].key, FALSE))
              ELSE /\ UNCHANGED <<agreements, timeline_events, outbox>>
                   /\ Return(p, EsignResult(p, IF ~mark.ok THEN mark.err
                                               ELSE IF ~ins.ok THEN ins.err
                                               ELSE "commit",
                                            a, tx[p].key, FALSE))

\* Repository.ExecuteEsignCompletionTx from the timeline insert on (its
\* trigger takes the advisory lock of the agreement), and Commit
EsignRun(p, actorID, commit) ==
    /\ At(p, "esign_event")
    /\ Free(p, <<"advisory", tx[p].a>>)
    /\ UNCHANGED <<side_tables, referral_requests, referral_matches, disputes, now>>
    /\ LET a    == tx[p].a
           mark == markAgreementEffective(agreements, a, tx[p].ts)
           ins  == TimelineInsert(mark.agreements, timeline_events, a,
                                  "ESIGN_COMPLETED", actorID, NULL,
                                  setTimelineBroker(agreements[a].from_broker_id,
                                                    agreements[a].to_broker_id,
                                                    actorID),
                                  tx[p].ts)
       IN  IF mark.ok /\ ins.ok /\ commit
           THEN /\ agreements' = ins.agreements
                /\ timeline_events' = ins.timeline
                /\ outbox' = Append(outbox, OutboxRow("agreement.effective", a))
                /\ idempotency' = idempotency \cup {tx[p].key}
                /\ Return(p, EsignResult(p, "", a, tx[p].key, FALSE))
           ELSE /\ UNCHANGED <<agreements, timeline_events, outbox, idempotency>>
                /\ Return(p, EsignResult(p, IF ~mark.ok THEN mark.err
                                            ELSE IF ~ins.ok THEN ins.err
                                            ELSE "commit",
                                         a, tx[p].key, FALSE))

\* ------------------------------------------------ MatchService.UpdateState
\* what an UpdateState call returns, with the request it was given and the
\* match state its GetByID read
MatchResult(p, err, m, ag, newState, pool, seen) ==
    [op |-> "UpdateState", proc |-> p, ok |-> (err = ""), err |-> err, ag |-> ag,
     match |-> m, state |-> newState, pool |-> pool, seen |-> seen]

\* the result of a call in flight
MatchReturn(p, err, ag) ==
    Return(p, MatchResult(p, err, tx[p].m, ag, tx[p].state, tx[p].pool, tx[p].seen))

\* fault variant: the same-state return removed
SameState_never(current, newState) == FALSE

\* if match.State == params.NewState { return MatchUpdateResult{Match: match}, nil }
SameState(current, newState) == current = newState

\* GetByID, the candidate check, the same-state return, and the dispatch to
\* acceptMatchAndCreateAgreement (pool configured) or to Repository.UpdateState
UpdateState(p, m, candidateID, newState, pool) ==
    /\ CanCall(p)
    /\ UNCHANGED tables
    /\ LET seen == referral_matches[m]
       IN  IF MatchCandidate[m] # candidateID
           THEN /\ UNCHANGED now
                /\ Return(p, MatchResult(p, "match forbidden", m, NULL, newState, pool, seen))
           ELSE IF SameState(seen, newState)
           THEN /\ UNCHANGED now
                /\ Return(p, MatchResult(p, "", m, NULL, newState, pool, seen))
           ELSE /\ now < MaxClock
                /\ now' = now + 1
                /\ tx' = [tx EXCEPT ![p] =
                             [pc |-> IF newState = "accepted" /\ pool
                                     THEN "accept_lock_match" ELSE "match_update",
                              op |-> "UpdateState", ts |-> now + 1, locks |-> {}, m |-> m,
                              state |-> newState, pool |-> pool, seen |-> seen]]
                /\ NoReturn

\* MatchRepository.UpdateState: UPDATE referral_matches SET state = $2 WHERE id = $1
MatchUpdate(p) ==
    /\ At(p, "match_update")
    /\ Free(p, <<"match", tx[p].m>>)
    /\ referral_matches' = [referral_matches EXCEPT ![tx[p].m] = tx[p].state]
    /\ UNCHANGED <<side_tables, agreements, referral_requests, timeline_events, outbox, idempotency,
                   disputes, now>>
    /\ MatchReturn(p, "", NULL)

\* fault variant: the match is marked accepted on the pool, outside the
\* transaction
AcceptLockMatch_autocommit(p) ==
    /\ At(p, "accept_lock_match")
    /\ Free(p, <<"match", tx[p].m>>)
    /\ UNCHANGED <<side_tables, agreements, referral_requests, timeline_events, outbox,
                   idempotency, disputes, now>>
    /\ IF referral_matches[tx[p].m] \in {"accepted", "invited"}
       THEN /\ referral_matches' = [referral_matches EXCEPT ![tx[p].m] = "accepted"]
            /\ tx' = [tx EXCEPT ![p].pc = "accept_lock_referral",
                                ![p].locks = {<<"match", tx[p].m>>}]
            /\ NoReturn
       ELSE /\ UNCHANGED referral_matches
            /\ MatchReturn(p, "invalid match transition", NULL)

\* acceptMatchAndCreateAgreement: SELECT state FROM referral_matches FOR UPDATE
\* and the switch on the locked state
AcceptLockMatch(p) ==
    /\ At(p, "accept_lock_match")
    /\ Free(p, <<"match", tx[p].m>>)
    /\ UNCHANGED <<tables, now>>
    /\ IF referral_matches[tx[p].m] \in {"accepted", "invited"}
       THEN /\ tx' = [tx EXCEPT ![p].pc = "accept_lock_referral",
                                ![p].locks = {<<"match", tx[p].m>>}]
            /\ NoReturn
       ELSE MatchReturn(p, "invalid match transition", NULL)

\* the active agreement CreateFromMatch finds for the referral (existingSQL)
ExistingActive(ags, r) ==
    {a \in AgIds : /\ ags[a] # NoRow
                   /\ ags[a].referral_id = r
                   /\ ags[a].status \in {"pending_signature", "effective"}}

\* CreateFromMatch up to the existing-agreement check: the referral request is
\* locked FOR UPDATE, the brokers are read, and an existing active agreement of
\* the referral is returned (the transaction then commits the match update)
AcceptLockReferral(p, commit) ==
    /\ At(p, "accept_lock_referral")
    /\ LET m  == tx[p].m
           r  == MatchRequest[m]
           ob == UserBroker[ReferralOwner[r]]
           cb == UserBroker[MatchCandidate[m]]
       IN  /\ Free(p, <<"referral", r>>)
           /\ UNCHANGED <<side_tables, agreements, referral_requests, timeline_events, outbox,
                          idempotency, disputes, now>>
           /\ IF ob = NULL \/ cb = NULL
              THEN /\ UNCHANGED referral_matches
                   /\ MatchReturn(p, "broker missing", NULL)
              ELSE IF ExistingActive(agreements, r) # {}
              THEN IF commit
                   THEN /\ referral_matches' = [referral_matches EXCEPT ![m] = "accepted"]
                        /\ \/ MatchReturn(p, "", CHOOSE a \in ExistingActive(agreements, r) : TRUE)
                           \/ MatchReturn(p, "get match", NULL)
                   ELSE /\ UNCHANGED referral_matches
                        /\ MatchReturn(p, "commit", NULL)
              ELSE /\ UNCHANGED referral_matches
                   /\ tx' = [tx EXCEPT ![p].pc = "accept_insert",
                                       ![p].locks = @ \cup {<<"referral", r>>}]
                   /\ NoReturn

\* fault variant: the referral request is left as it is
ReferralAfterAccept_kept(status) == status

\* UPDATE referral_requests SET status = 'matched' WHERE id = $1 AND status = 'open'
\* (run when the locked row's status is open)
ReferralAfterAccept(status) == IF status = "open" THEN "matched" ELSE status

\* CreateFromMatch from the INSERT on: the pending_signature agreement, the
\* referral open -> matched, the AGREEMENT_CREATED event, the agreement.created
\* outbox row; then Commit, and the GetByID that reads the match again on the
\* pool and may fail (the call is cancelled, the connection is lost)
AcceptInsert(p, commit) ==
    /\ At(p, "accept_insert")
    /\ FreeIds(agreements) # {}
    /\ UNCHANGED <<side_tables, idempotency, disputes, now>>
    /\ LET m    == tx[p].m
           r    == MatchRequest[m]
           cand == MatchCandidate[m]
           ob   == UserBroker[ReferralOwner[r]]
           cb   == UserBroker[cand]
           a    == NewId(agreements)
           row  == NewAgreement(r, ob, cb, "pending_signature")
           uniq == agreements_one_active_per_referral(agreements, a, row)
           ags1 == [agreements EXCEPT ![a] = row]
           ins  == TimelineInsert(ags1, timeline_events, a, "AGREEMENT_CREATED", cand, m,
                                  setTimelineBroker(ob, cb, cand), tx[p].ts)
       IN  IF uniq /\ ins.ok /\ commit
           THEN /\ agreements' = ins.agreements
                /\ referral_matches' = [referral_matches EXCEPT ![m] = "accepted"]
                /\ referral_requests' =
                       [referral_requests EXCEPT ![r] = ReferralAfterAccept(@)]
                /\ timeline_events' = ins.timeline
                /\ outbox' = Append(outbox, OutboxRow("agreement.created", a))
                /\ \/ MatchReturn(p, "", a)
                   \/ MatchReturn(p, "get match", NULL)
           ELSE /\ UNCHANGED <<agreements, referral_matches, referral_requests,
                               timeline_events, outbox>>
                /\ MatchReturn(p, IF ~uniq THEN "23505"
                                   ELSE IF ~ins.ok THEN ins.err ELSE "commit", NULL)

\* ------------------------------------------------------ dispute.Repository
FreeDisputes == {d \in DisputeIds : disputes[d] = NoRow}

\* Repository.Create: INSERT INTO disputes ... SELECT ... WHERE a.id = $1 AND
\* rr.created_by_user_id = $2 (the foreign key takes a share lock on the agreement)
DisputeCreate(p, ownerID, a) ==
    /\ CanCall(p)
    /\ UNCHANGED <<side_tables, agreements, referral_requests, referral_matches, timeline_events,
                   outbox, idempotency, now, tx>>
    /\ IF Exists(agreements, a) /\ ReferralOwner[agreements[a].referral_id] = ownerID
       THEN /\ FreeDisputes # {}
            /\ Free(p, <<"agreement", a>>)
            /\ LET d == CHOOSE x \in FreeDisputes : \A y \in FreeDisputes : x <= y
               IN  /\ disputes' = [disputes EXCEPT ![d] =
                                      [agreement_id |-> a, status |-> "under_review",
                                       resolved_at |-> NULL]]
                   /\ ret' = Result(p, "DisputeCreate", "", a)
       ELSE /\ UNCHANGED disputes
            /\ ret' = Result(p, "DisputeCreate", "forbidden", a)

FreeInvoices == {i \in InvoiceIds : invoices[i] = NoRow}

\* the statuses an invoice is inserted with
InvoiceStatus == {"open", "paid"}

\* INSERT INTO invoices (agreement_id, amount, status) VALUES ($1, 100, $2):
\* is_invalidated takes its default FALSE
InvoiceCreate(p, a, status) ==
    /\ CanCall(p)
    /\ Exists(agreements, a)
    /\ FreeInvoices # {}
    /\ Free(p, <<"agreement", a>>)
    /\ LET i == CHOOSE x \in FreeInvoices : \A y \in FreeInvoices : x <= y
       IN  invoices' = [invoices EXCEPT ![i] =
                           [agreement_id |-> a, status |-> status, is_invalidated |-> FALSE]]
    /\ ret' = Result(p, "InvoiceCreate", "", a)
    /\ UNCHANGED <<agreements, referral_requests, cancel_reason, referral_matches, timeline_events,
                   outbox, idempotency, disputes, audit_logs, edge_invocations,
                   edge_effects, agreements_region_audit, now, tx>>

\* fault variant: the invoices are left as they are
InvalidateInvoices_none(inv, a) == inv

\* UPDATE invoices SET is_invalidated = TRUE WHERE agreement_id =
\* NEW.agreement_id AND status NOT IN ('paid','written_off')
InvalidateInvoices(inv, a) ==
    [i \in InvoiceIds |->
        IF inv[i] # NoRow /\ inv[i].agreement_id = a
              /\ inv[i].status \notin {"paid", "written_off"}
        THEN [inv[i] EXCEPT !.is_invalidated = TRUE]
        ELSE inv[i]]

\* trigger disputes_resolve_guard on UPDATE disputes SET status = 'resolved':
\* when the row was not resolved, the agreement is set to disputed (subject to
\* its CHECK constraint), its invoices are invalidated and resolved_at is stamped
disputes_resolve_guard(ags, inv, old, ts) ==
    LET a   == old.agreement_id
        row == [ags[a] EXCEPT !.status = "disputed"]
    IN  IF old.status = "resolved"
        THEN [ok |-> TRUE, err |-> "", agreements |-> ags, invoices |-> inv,
              dispute |-> old]
        ELSE IF ~chk_agreement_effective_at_pair(row)
        THEN [ok |-> FALSE, err |-> "23514", agreements |-> ags, invoices |-> inv,
              dispute |-> old]
        ELSE [ok |-> TRUE, err |-> "", agreements |-> [ags EXCEPT ![a] = row],
              invoices |-> InvalidateInvoices(inv, a),
              dispute |-> [old EXCEPT !.status = "resolved", !.resolved_at = ts]]

\* fault variant: the UPDATE takes the row whatever its status
ResolveQualifies_any(row, ownerID) ==
    ReferralOwner[agreements[row.agreement_id].referral_id] = ownerID

\* the WHERE clause of Resolve's UPDATE on an existing dispute row
ResolveQualifies(row, ownerID) ==
    /\ ReferralOwner[agreements[row.agreement_id].referral_id] = ownerID
    /\ row.status # "resolved"

\* the check query Resolve runs when its UPDATE returned no row
ResolveCheck(d, ownerID) ==
    IF disputes[d] = NoRow
          \/ ReferralOwner[agreements[disputes[d].agreement_id].referral_id] # ownerID
    THEN "forbidden"
    ELSE IF disputes[d].status = "resolved" THEN "bad status"
    ELSE "forbidden"

\* locked: the outcome was decided on the row as it was once the lock was held
ResolveResult(p, err, d, a, ownerID, locked) ==
    [op |-> "DisputeResolve", proc |-> p, ok |-> (err = ""), err |-> err, ag |-> a,
     dispute |-> d, owner |-> ownerID, locked |-> locked]

\* Repository.Resolve up to the row lock: the UPDATE finds the dispute row in
\* its snapshot, or finds none and the check query names the error
DisputeResolve(p, ownerID, d) ==
    /\ CanCall(p)
    /\ UNCHANGED tables
    /\ IF disputes[d] # NoRow /\ ResolveQualifies(disputes[d], ownerID)
       THEN /\ now < MaxClock
            /\ now' = now + 1
            /\ tx' = [tx EXCEPT ![p] = [pc |-> "resolve_apply", op |-> "DisputeResolve",
                                        d |-> d, owner |-> ownerID, ts |-> now + 1,
                                        locks |-> {}]]
            /\ NoReturn
       ELSE /\ UNCHANGED <<now, tx>>
            /\ ret' = ResolveResult(p, ResolveCheck(d, ownerID), d,
                                    IF disputes[d] = NoRow THEN NULL
                                    ELSE disputes[d].agreement_id, ownerID, FALSE)

\* Repository.Resolve from the row lock on: the WHERE clause is evaluated
\* again on the latest row, the trigger runs (waiting for the agreement row
\* when it has to write it), and the statement commits
ResolveApply(p, commit) ==
    /\ At(p, "resolve_apply")
    /\ LET d == tx[p].d
           a == disputes[d].agreement_id
           g == disputes_resolve_guard(agreements, invoices, disputes[d], tx[p].ts)
       IN  /\ UNCHANGED <<referral_requests, cancel_reason, referral_matches, timeline_events, outbox,
                          idempotency, audit_logs, edge_invocations, edge_effects,
                          agreements_region_audit, now>>
           /\ IF ~ResolveQualifies(disputes[d], tx[p].owner)
              THEN /\ UNCHANGED <<agreements, invoices, disputes>>
                   /\ Return(p, ResolveResult(p, ResolveCheck(d, tx[p].owner), d, a, tx[p].owner, TRUE))
              ELSE /\ agreements[a].status # "disputed" => Free(p, <<"agreement", a>>)
                   /\ IF g.ok /\ commit
                      THEN /\ agreements' = g.agreements
                           /\ invoices' = g.invoices
                           /\ disputes' = [disputes EXCEPT ![d] = g.dispute]
                           /\ Return(p, ResolveResult(p, "", d, a, tx[p].owner, TRUE))
                      ELSE /\ UNCHANGED <<agreements, invoices, disputes>>
                           /\ Return(p, ResolveResult(p, IF ~g.ok THEN g.err ELSE "commit",
                                                      d, a, tx[p].owner, TRUE))

\* --------------------------------------------- get_pii_contact (PIIReader)
\* fault variant: the gate checks only that the agreement exists
get_pii_contact_gate_open(row, ts) == IF row = NoRow THEN "not found" ELSE ""

\* the three RAISE EXCEPTION checks of get_pii_contact on the agreement row it
\* selected; ts is get_tx_timestamp()
get_pii_contact_gate(row, ts) ==
    IF row = NoRow THEN "not found"
    ELSE IF row.status # "effective" THEN "not effective"
    ELSE IF row.effective_at = NULL \/ ts < row.effective_at THEN "not yet effective"
    ELSE ""

\* fault variant: the UPDATE stamps nothing
FirstAccess_never(row, ts) == row.pii_first_access_time

\* fault variant: the first-access stamp is rewritten by every read
FirstAccess_overwrite(row, ts) == ts

\* UPDATE agreements SET pii_first_access_time = get_tx_timestamp()
\* WHERE id = p_agreement_id AND pii_first_access_time IS NULL
FirstAccess(row, ts) ==
    IF row.pii_first_access_time = NULL THEN ts ELSE row.pii_first_access_time

\* audit_pii_access: INSERT INTO audit_logs (..., 'PII_READ', ..., get_tx_timestamp())
AuditRow(a, actorID, ts) ==
    [agreement_id |-> a, actor_id |-> actorID, action |-> "PII_READ", ts |-> ts]

PiiResult(p, err, a, actorID, ts) ==
    [op |-> "GetPiiContact", proc |-> p, ok |-> (err = ""), err |-> err, ag |-> a,
     actor |-> actorID, ts |-> ts]

\* SELECT * FROM get_pii_contact($1, $2) as its own transaction, up to the
\* gate: the agreement is read without a lock.  tie: the transaction starts
\* within the same clock reading as the transaction that started last
\* (transaction_timestamp() has microsecond resolution).
GetPiiContact(p, a, actorID, tie) ==
    /\ CanCall(p)
    /\ UNCHANGED tables
    /\ IF tie THEN now >= 1 ELSE now < MaxClock
    /\ LET ts  == IF tie THEN now ELSE now + 1
           err == get_pii_contact_gate(agreements[a], ts)
       IN  IF err # ""
           THEN /\ UNCHANGED <<now, tx>>
                /\ ret' = PiiResult(p, err, a, actorID, ts)
           ELSE /\ Len(audit_logs) < MaxAudit
                /\ now' = ts
                /\ tx' = [tx EXCEPT ![p] = [pc |-> "pii_update", op |-> "GetPiiContact",
                                            a |-> a, actor |-> actorID, ts |-> ts,
                                            locks |-> {}]]
                /\ NoReturn

\* get_pii_contact from the UPDATE on: the stamp of the first access (waiting
\* for the row lock only when the row still qualifies), the audit row, and
\* the commit of the statement
PiiWrite(p, commit) ==
    /\ At(p, "pii_update")
    /\ LET a == tx[p].a
       IN  /\ agreements[a].pii_first_access_time = NULL => Free(p, <<"agreement", a>>)
           /\ UNCHANGED <<referral_requests, cancel_reason, referral_matches, timeline_events, outbox,
                          idempotency, disputes, invoices, edge_invocations, edge_effects,
                          agreements_region_audit, now>>
           /\ IF commit
              THEN /\ agreements' = [agreements EXCEPT ![a].pii_first_access_time =
                                         FirstAccess(agreements[a], tx[p].ts)]
                   /\ audit_logs' = Append(audit_logs, AuditRow(a, tx[p].actor, tx[p].ts))
                   /\ Return(p, PiiResult(p, "", a, tx[p].actor, tx[p].ts))
              ELSE /\ UNCHANGED <<agreements, audit_logs>>
                   /\ Return(p, PiiResult(p, "commit", a, tx[p].actor, tx[p].ts))

\* ------------------------------------------------ append-only ledger guards
\* fault variant: the trigger returns the row and the statement proceeds
prevent_event_mutation_off(op) == ""

\* trigger function prevent_event_mutation (BEFORE UPDATE OR DELETE ON
\* timeline_events, FOR EACH ROW); op is TG_OP
prevent_event_mutation(op) == "timeline_events are immutable"

\* trigger function forbid_agreement_delete (BEFORE DELETE ON agreements)
forbid_agreement_delete(op) == IF op = "DELETE" THEN "agreements are non-deletable" ELSE ""

\* trigger function forbid_audit_mutation (audit_no_update, audit_no_delete)
forbid_audit_mutation(op) == "audit_logs are append-only"

LedgerTables == {"timeline_events", "agreements", "audit_logs"}

\* the indexes of the rows of a ledger that belong to agreement a
RowsOf(ledger, a) == {i \in 1..Len(ledger) : ledger[i].agreement_id = a}

\* DELETE: the ledger without the rows of agreement a
Without(ledger, a) == SelectSeq(ledger, LAMBDA e : e.agreement_id # a)

\* UPDATE ... SET actor_id = NULL on the rows of agreement a
Rewritten(ledger, a) ==
    [i \in 1..Len(ledger) |-> IF ledger[i].agreement_id = a
                               THEN [ledger[i] EXCEPT !.actor_id = NULL]
                               ELSE ledger[i]]

TamperResult(p, err, table, op, a, rows) ==
    [op |-> "Tamper", proc |-> p, ok |-> (err = ""), err |-> err, ag |-> a,
     table |-> table, stmt |-> op, rows |-> rows]

\* one autocommit UPDATE or DELETE on the rows of agreement a in a guarded
\* table (the DELETE statements of the integration-test cleanups, and the
\* UPDATE the same triggers cover); the row trigger fires once a row matches
Tamper(p, table, op, a) ==
    /\ CanCall(p)
    /\ UNCHANGED <<referral_requests, cancel_reason, referral_matches, outbox, idempotency, disputes,
                   invoices, edge_invocations, edge_effects, agreements_region_audit,
                   now, tx>>
    /\ \/ /\ table = "timeline_events"
          /\ UNCHANGED <<agreements, audit_logs>>
          /\ LET n   == Cardinality(RowsOf(timeline_events, a))
                 err == IF n = 0 THEN "" ELSE prevent_event_mutation(op)
             IN  /\ timeline_events' =
                        IF n = 0 \/ err # "" THEN timeline_events
                        ELSE IF op = "DELETE" THEN Without(timeline_events, a)
                        ELSE Rewritten(timeline_events, a)
                 /\ ret' = TamperResult(p, err, table, op, a, n)
       \/ /\ table = "audit_logs"
          /\ UNCHANGED <<agreements, timeline_events>>
          /\ LET n   == Cardinality(RowsOf(audit_logs, a))
                 err == IF n = 0 THEN "" ELSE forbid_audit_mutation(op)
             IN  /\ audit_logs' =
                        IF n = 0 \/ err # "" THEN audit_logs
                        ELSE IF op = "DELETE" THEN Without(audit_logs, a)
                        ELSE Rewritten(audit_logs, a)
                 /\ ret' = TamperResult(p, err, table, op, a, n)
       \/ /\ table = "agreements" /\ op = "DELETE"
          /\ UNCHANGED <<timeline_events, audit_logs>>
          /\ Exists(agreements, a) => Free(p, <<"agreement", a>>)
          /\ LET n   == IF Exists(agreements, a) THEN 1 ELSE 0
                 err == IF n = 0 THEN ""
                        ELSE IF forbid_agreement_delete(op) # "" THEN forbid_agreement_delete(op)
                        ELSE IF RowsOf(timeline_events, a) # {} THEN "23503"
                        ELSE ""
             IN  /\ agreements' = IF n = 0 \/ err # "" THEN agreements
                                  ELSE [agreements EXCEPT ![a] = NoRow]
                 /\ ret' = TamperResult(p, err, table, op, a, n)

\* ------------------------------------------------- agreement region guard
\* fault variant: the trigger records the change and lets it through
enforce_agreement_region_immutable_noraise(a, old, new) ==
    [err |-> "",
     audit |-> IF new # old
               THEN <<[agreement_id |-> a, old_region |-> old, new_region |-> new]>>
               ELSE <<>>]

\* trigger function enforce_agreement_region_immutable: the audit row it
\* inserts and the exception it raises
enforce_agreement_region_immutable(a, old, new) ==
    IF new # old
    THEN [err |-> "Agreement region is immutable",
          audit |-> <<[agreement_id |-> a, old_region |-> old, new_region |-> new]>>]
    ELSE [err |-> "", audit |-> <<>>]

RegionResult(p, err, a, region, rows) ==
    [op |-> "RegionUpdate", proc |-> p, ok |-> (err = ""), err |-> err, ag |-> a,
     region |-> region, rows |-> rows]

\* UPDATE agreements SET region = $2 WHERE id = $1 as one autocommit
\* statement: an exception raised by the row trigger aborts the statement, and
\* with it the audit row the trigger inserted
RegionUpdate(p, a, region) ==
    /\ CanCall(p)
    /\ UNCHANGED <<referral_requests, cancel_reason, referral_matches, timeline_events, outbox,
                   idempotency, disputes, audit_logs, invoices, edge_invocations,
                   edge_effects, now, tx>>
    /\ IF ~Exists(agreements, a)
       THEN /\ UNCHANGED <<agreements, agreements_region_audit>>
            /\ ret' = RegionResult(p, "", a, region, 0)
       ELSE /\ Free(p, <<"agreement", a>>)
            /\ LET g == enforce_agreement_region_immutable(a, agreements[a].region, region)
               IN  /\ agreements' = IF g.err # "" THEN agreements
                                    ELSE [agreements EXCEPT ![a].region = region]
                   /\ agreements_region_audit' =
                          IF g.err # "" THEN agreements_region_audit
                          ELSE agreements_region_audit \o g.audit
                   /\ ret' = RegionResult(p, g.err, a, region, 1)

\* ------------------------------------------- harness EventWriter (actors.go)
\* SELECT COALESCE(MAX(seq),0)+1 FROM timeline_events WHERE agreement_id = $1
MaxSeqPlusOne(tl, a) ==
    LET S == {tl[i].seq : i \in {j \in 1..Len(tl) : tl[j].agreement_id = a}}
    IN  IF S = {} THEN 1 ELSE (CHOOSE m \in S : \A n \in S : n <= m) + 1

\* pool.Begin and the read of the next sequence number
EventWriterBegin(p, a) ==
    /\ CanCall(p)
    /\ now < MaxClock
    /\ now' = now + 1
    /\ tx' = [tx EXCEPT ![p] = [pc |-> "ew_advisory", op |-> "EventWriter", a |-> a,
                                ts |-> now + 1, locks |-> {},
                                seq |-> MaxSeqPlusOne(timeline_events, a)]]
    /\ NoReturn
    /\ UNCHANGED tables

\* the INSERT reaches trg_check_temporal_integrity (timeline_seq has nothing to
\* do for an explicit seq): pg_advisory_xact_lock(hashtext(agreement_id))
EventWriterAdvisory(p) ==
    /\ At(p, "ew_advisory")
    /\ Free(p, <<"advisory", tx[p].a>>)
    /\ tx' = [tx EXCEPT ![p].pc = "ew_insert", ![p].locks = {<<"advisory", tx[p].a>>}]
    /\ NoReturn
    /\ UNCHANGED <<tables, now>>

\* the rest of the INSERT INTO timeline_events (agreement_id, seq, type, payload)
\* with an explicit seq and no broker context: the trigger's SELECT ... FOR
\* UPDATE of the agreement, its checks, the writer guard; then Commit
\* (Rollback on an error)
EventWriterInsert(p, type, commit) ==
    /\ At(p, "ew_insert")
    /\ Free(p, <<"agreement", tx[p].a>>)
    /\ UNCHANGED <<side_tables, agreements, referral_requests, referral_matches, outbox,
                   idempotency, disputes, now>>
    /\ LET a   == tx[p].a
           row == agreements[a]
           e1  == check_temporal_integrity(row, type, tx[p].ts)
           e2  == trg_guard_timeline_writer(row, NULL)
           ev  == [agreement_id |-> a, seq |-> tx[p].seq, type |-> type,
                   actor_id |-> NULL, match_id |-> NULL, actor_broker_id |-> NULL,
                   ts |-> tx[p].ts]
           err == IF e1 # "" THEN e1
                  ELSE IF e2 # "" THEN e2
                  ELSE IF ~timeline_events_agreement_id_seq_unique(timeline_events, a, tx[p].seq)
                  THEN "23505"
                  ELSE IF ~commit THEN "commit"
                  ELSE ""
       IN  /\ timeline_events' = IF err = "" THEN Append(timeline_events, ev)
                                 ELSE timeline_events
           /\ Return(p, Result(p, "EventWriter", err, a))

\* fault variant: the SELECT returns only the newest pending row
PendingUnlocked_newest(p) ==
    {i \in 1..Len(outbox) :
        /\ outbox[i].status = "pending" /\ Free(p, <<"outbox", i>>)
        /\ \A j \in (i + 1)..Len(outbox) :
              ~(outbox[j].status = "pending" /\ Free(p, <<"outbox", j>>))}

\* ------------------------------------------ harness OutboxWorker (actors.go)
\* SELECT id FROM outbox WHERE status = 'pending' ORDER BY created_at
\* FOR UPDATE SKIP LOCKED LIMIT 10: the pending rows no other transaction holds
\* (the tables of the model stay below the limit)
PendingUnlocked(p) ==
    {i \in 1..Len(outbox) : outbox[i].status = "pending" /\ Free(p, <<"outbox", i>>)}

\* fault variant: a failed attempt leaves the row as it is
OutboxFailed_forgotten(row, ts) == row

\* UPDATE outbox SET attempts = attempts + 1, last_attempt = NOW() WHERE id = $1
\* (the counter of the model stops at MaxAttempts)
OutboxFailed(row, ts) ==
    [row EXCEPT !.attempts = IF @ < MaxAttempts THEN @ + 1 ELSE @, !.last_attempt = ts]

\* fault variant: a delivered row is stamped but stays pending
OutboxProcessed_pending(row, ts) == [row EXCEPT !.last_attempt = ts]

\* UPDATE outbox SET status = 'processed', last_attempt = NOW() WHERE id = $1
OutboxProcessed(row, ts) == [row EXCEPT !.status = "processed", !.last_attempt = ts]

WorkerResult(p, err, rows, failed) ==
    [op |-> "OutboxWorker", proc |-> p, ok |-> (err = ""), err |-> err, ag |-> NULL,
     rows |-> rows, failed |-> failed, ts |-> tx[p].ts]

\* one round of OutboxWorker up to the loop over the selected ids: pool.Begin
\* and the locking SELECT.  NOW() is the transaction's start time; the clock
\* of the model stops at MaxClock.
WorkerSelect(p) ==
    /\ CanCall(p)
    /\ PendingUnlocked(p) # {}
    /\ LET ts == IF now < MaxClock THEN now + 1 ELSE now
       IN  /\ now' = ts
           /\ tx' = [tx EXCEPT ![p] = [pc |-> "worker_loop", op |-> "OutboxWorker", ts |-> ts,
                                       rows |-> PendingUnlocked(p),
                                       locks |-> {<<"outbox", i>> : i \in PendingUnlocked(p)}]]
    /\ NoReturn
    /\ UNCHANGED tables

\* the outbox once the round's UPDATEs are committed; failed holds the ids
\* whose simulated delivery failed (rand.Intn(10) == 0)
WorkerApplied(ob, rows, failed, ts) ==
    [i \in 1..Len(ob) |->
        IF i \in failed THEN OutboxFailed(ob[i], ts)
        ELSE IF i \in rows THEN OutboxProcessed(ob[i], ts)
        ELSE ob[i]]

\* the rest of the round: the loop over the selected ids, each delivery
\* failing or succeeding, and tx.Commit (whose error is ignored)
WorkerRun(p, failed, commit) ==
    /\ At(p, "worker_loop")
    /\ failed \subseteq tx[p].rows
    /\ outbox' = IF commit THEN WorkerApplied(outbox, tx[p].rows, failed, tx[p].ts)
                 ELSE outbox
    /\ Return(p, WorkerResult(p, IF commit THEN "" ELSE "commit", tx[p].rows, failed))
    /\ UNCHANGED <<agreements, referral_requests, referral_matches, timeline_events,
                   idempotency, disputes, side_tables, now>>

\* -------------------------------------------- harness EdgeAdapter (actors.go)
\* INSERT INTO edge_invocations(key, route, status) VALUES ($1,$2,'pending')
\* ON CONFLICT DO NOTHING: the table after the statement
EdgeInsert(edge, route, key) ==
    IF edge[<<route, key>>] = "none"
    THEN [edge EXCEPT ![<<route, key>>] = "pending"]
    ELSE edge

\* the error the INSERT returns to the adapter: ON CONFLICT DO NOTHING turns a
\* conflict into an insert of no row, which is not an error
EdgeInsertErr(edge, route, key, fail) == IF fail THEN "connection" ELSE ""

\* UPDATE edge_invocations SET status = 'completed', ... WHERE key = $1
EdgeCompleteKey(edge, key) ==
    [rk \in Routes \X Keys |->
        IF rk[2] = key /\ edge[rk] # "none" THEN "completed" ELSE edge[rk]]

EdgeResult(p, err, route, key, registered, performed) ==
    [op |-> "EdgeAdapter", proc |-> p, ok |-> (err = ""), err |-> err, ag |-> NULL,
     route |-> route, key |-> key, registered |-> registered, performed |-> performed]

\* one round of EdgeAdapter up to the test of err: the registering INSERT.
\* fail: the statement returns an error (connection lost).
EdgeRegister(p, route, key, fail) ==
    /\ CanCall(p)
    /\ edge_effects[<<route, key>>] < MaxEffects
    /\ UNCHANGED <<agreements, referral_requests, cancel_reason, referral_matches, timeline_events,
                   outbox, idempotency, disputes, audit_logs, invoices, edge_effects,
                   agreements_region_audit, now>>
    /\ IF EdgeInsertErr(edge_invocations, route, key, fail) # ""
       THEN /\ UNCHANGED <<edge_invocations, tx>>
            /\ ret' = EdgeResult(p, "connection", route, key, FALSE, FALSE)
       ELSE /\ edge_invocations' = EdgeInsert(edge_invocations, route, key)
            /\ tx' = [tx EXCEPT ![p] = [pc |-> "edge_complete", op |-> "EdgeAdapter",
                                        route |-> route, key |-> key, locks |-> {},
                                        registered |-> edge_invocations[<<route, key>>] = "none"]]
            /\ NoReturn

\* the rest of the round, taken when err == nil: the completion UPDATE, which
\* stands for the external call
EdgeComplete(p) ==
    /\ At(p, "edge_complete")
    /\ edge_invocations' = EdgeCompleteKey(edge_invocations, tx[p].key)
    /\ edge_effects' = [edge_effects EXCEPT ![<<tx[p].route, tx[p].key>>] = @ + 1]
    /\ Return(p, EdgeResult(p, "", tx[p].route, tx[p].key, tx[p].registered, TRUE))
    /\ UNCHANGED <<agreements, referral_requests, cancel_reason, referral_matches, timeline_events,
                   outbox, idempotency, disputes, audit_logs, invoices,
                   agreements_region_audit, now>>

\* ------------------------------------------------- referral Service.Cancel
\* characters of a reason string: a space and one non-space character
Chars == {" ", "x"}

\* reason strings of at most n characters
RECURSIVE StringsUpTo(_)
StringsUpTo(n) ==
    IF n = 0 THEN {<<>>}
    ELSE StringsUpTo(n - 1) \cup
         {Append(s, c) : s \in {t \in StringsUpTo(n - 1) : Len(t) = n - 1}, c \in Chars}

\* the reason field of a cancel request: absent, the empty string, or a
\* string of MaxReason characters
ReasonInputs ==
    {Nil} \cup {Ptr(s) : s \in {t \in StringsUpTo(MaxReason) : Len(t) \in {0, MaxReason}}}

\* the role strings the handler passes: VerifyToken admits the three
\* auth.Role values only
RoleInputs == {"agent", "broker_admin", "client"}

\* the request ids a caller passes: the referrals and one id with no row
MissingReferral == 2
ReferralInputs == Referrals \cup {MissingReferral}

\* strings.ToLower on role strings
ToLower(role) ==
    CASE role = "AGENT" -> "agent"
      [] role = "BROKER_ADMIN" -> "broker_admin"
      [] role = "CLIENT" -> "client"
      [] OTHER -> role

\* fault variant: the string is stored as given
TrimSpace_kept(s) == s

\* strings.TrimSpace: leading and trailing white space removed
RECURSIVE TrimSpace(_)
TrimSpace(s) ==
    IF s = <<>> THEN s
    ELSE IF Head(s) = " " THEN TrimSpace(Tail(s))
    ELSE IF s[Len(s)] = " " THEN TrimSpace(SubSeq(s, 1, Len(s) - 1))
    ELSE s

\* var reason *string: the trimmed input, nil when it is absent or empty
CancelReason(input) ==
    IF input # Nil /\ TrimSpace(input[1]) # <<>> THEN Ptr(TrimSpace(input[1])) ELSE Nil

\* referral.NewService(pool, referralRepo, nil, nil): the service's outbox
\* writer as main constructs it
ServiceOutbox == NULL

\* OutboxWriter.Enqueue(ctx, tx, topic, payload)
Enqueue(ob, topic, payload) ==
    Append(ob, [topic |-> topic, agreement_id |-> NULL, status |-> "pending",
                attempts |-> 0, last_attempt |-> NULL, payload |-> payload])

\* the payload of referral.cancelled: referral_id, status, and the reason when
\* one was stored
CancelPayload(r, status, reason) ==
    [referral_id |-> r, status |-> status, reason |-> reason]

\* the error of the role, ownership and state checks on the locked row
CancelCheck(r, actorID, role) ==
    IF ToLower(role) # "agent" /\ ToLower(role) # "broker_admin"
    THEN "cancel forbidden"
    ELSE IF ToLower(role) # "broker_admin" /\ ReferralOwner[r] # actorID
    THEN "cancel forbidden"
    ELSE IF referral_requests[r] # "open" /\ referral_requests[r] # "matched"
    THEN "cancel invalid state"
    ELSE ""

\* what a Cancel call returns, with the request it was given and the row its
\* GetForUpdate read
CancelResult(p, err, r, actorID, role, input) ==
    [op |-> "Cancel", proc |-> p, ok |-> (err = ""), err |-> err, ag |-> NULL,
     referral |-> r, actor |-> actorID, role |-> role, input |-> input,
     seen |-> IF r \in Referrals THEN referral_requests[r] ELSE "",
     seen_reason |-> IF r \in Referrals THEN cancel_reason[r] ELSE Nil]

\* Service.Cancel: Begin, GetForUpdate (waits for the row lock), the checks,
\* UpdateStatus, the outbox message when a writer is configured, Commit.  No
\* statement after the lock waits, so the transaction is one step.
Cancel(p, r, actorID, role, input, commit) ==
    /\ CanCall(p)
    /\ r \in Referrals => Free(p, <<"referral", r>>)
    /\ UNCHANGED <<agreements, referral_matches, timeline_events, idempotency, disputes,
                   audit_logs, invoices, edge_invocations, edge_effects,
                   agreements_region_audit, now>>
    /\ LET err == IF r \notin Referrals THEN "not found"
                  ELSE IF CancelCheck(r, actorID, role) # "" THEN CancelCheck(r, actorID, role)
                  ELSE IF ~commit THEN "commit" ELSE ""
       IN  /\ IF err = ""
              THEN /\ referral_requests' = [referral_requests EXCEPT ![r] = "cancelled"]
                   /\ cancel_reason' = [cancel_reason EXCEPT ![r] = CancelReason(input)]
                   /\ outbox' = IF ServiceOutbox # NULL
                                THEN Enqueue(outbox, "referral.cancelled",
                                             CancelPayload(r, "cancelled", CancelReason(input)))
                                ELSE outbox
              ELSE UNCHANGED <<referral_requests, cancel_reason, outbox>>
           /\ Return(p, CancelResult(p, err, r, actorID, role, input))

\* ------------------------------------------------------------ lock waits
NoLock == <<"none", 0>>

\* the lock the next statement of p's open transaction has to take: the row
\* lock of the agreement (SELECT ... FOR UPDATE, UPDATE agreements), its
\* advisory lock (pg_advisory_xact_lock in trg_check_temporal_integrity) or the
\* idempotency key
Needs(p) ==
    LET pc == tx[p].pc
    IN  CASE pc \in {"transition_lock", "esign_run"} ->
                 IF Exists(agreements, tx[p].a) THEN <<"agreement", tx[p].a>> ELSE NoLock
          [] pc \in {"transition_write", "esign_event", "ew_advisory"} ->
                 <<"advisory", tx[p].a>>
          [] pc = "ew_insert" -> <<"agreement", tx[p].a>>
          [] pc = "esign_key" -> <<"key", tx[p].key>>
          [] pc = "pii_update" ->
                 IF agreements[tx[p].a].pii_first_access_time = NULL
                 THEN <<"agreement", tx[p].a>> ELSE NoLock
          [] pc = "resolve_apply" ->
                 IF /\ ResolveQualifies(disputes[tx[p].d], tx[p].owner)
                    /\ agreements[disputes[tx[p].d].agreement_id].status # "disputed"
                 THEN <<"agreement", disputes[tx[p].d].agreement_id>> ELSE NoLock
          [] OTHER -> NoLock

\* p waits for a lock that q holds
WaitsOn(p, q) == p # q /\ Busy(p) /\ Needs(p) \in LocksOf(q)

\* a set of transactions each of which waits for another one of the set
Deadlocked(S) == S # {} /\ \A p \in S : \E q \in S : WaitsOn(p, q)

\* the context of an open transaction is cancelled (or its backend is
\* terminated): the deferred Rollback discards its writes and releases its locks
Abort(p) ==
    /\ ret = NoRes
    /\ Busy(p)
    /\ UNCHANGED <<tables, now>>
    /\ Return(p, Result(p, tx[p].op, "cancelled", NULL))

\* the caller takes the returned result; until then no other call is served
Deliver ==
    /\ ret # NoRes
    /\ ret' = NoRes
    /\ UNCHANGED <<tables, now, tx>>

Next ==
    \/ \E p \in Procs :
        \/ \E r \in Referrals : Creator(p, r)
        \/ \E u \in Users, r \in Referrals, pair \in BrokerPairs, c \in BOOLEAN :
               Create(p, u, r, pair, c)
        \/ \E a \in AgIds : TransitionBegin(p, a)
        \/ \E next \in AgreementStatus : TransitionLock(p, next)
        \/ \E u \in Actors, c \in BOOLEAN : TransitionWrite(p, u, c)
        \/ \E a \in AgIds, k \in Keys : EsignBegin(p, a, k)
        \/ EsignKey(p)
        \/ EsignMark(p)
        \/ \E u \in Actors \cup {NULL}, c \in BOOLEAN : EsignRun(p, u, c)
        \/ \E m \in Matches, u \in Users, st \in MatchStates, pool \in BOOLEAN :
               UpdateState(p, m, u, st, pool)
        \/ MatchUpdate(p)
        \/ AcceptLockMatch(p)
        \/ \E c \in BOOLEAN : AcceptLockReferral(p, c)
        \/ \E c \in BOOLEAN : AcceptInsert(p, c)
        \/ \E u \in Users, a \in AgIds : DisputeCreate(p, u, a)
        \/ \E u \in Users, d \in DisputeIds : DisputeResolve(p, u, d)
        \/ \E c \in BOOLEAN : ResolveApply(p, c)
        \/ \E a \in AgIds : EventWriterBegin(p, a)
        \/ EventWriterAdvisory(p)
        \/ \E type \in {"OFFER_MADE", "DEAL_CLOSED"}, c \in BOOLEAN : EventWriterInsert(p, type, c)
        \/ Abort(p)
    \/ Deliver

Spec == Init /\ [][Next]_vars

\* the PII accessor running against agreement creation, e-sign completion,
\* status changes and disputes
NextPii ==
    \/ \E p \in Procs :
        \/ \E r \in Referrals : Creator(p, r)
        \/ \E a \in AgIds : TransitionBegin(p, a)
        \/ \E next \in AgreementStatus : TransitionLock(p, next)
        \/ \E u \in Actors, c \in BOOLEAN : TransitionWrite(p, u, c)
        \/ \E a \in AgIds, k \in Keys : EsignBegin(p, a, k)
        \/ EsignKey(p)
        \/ EsignMark(p)
        \/ \E u \in Actors, c \in BOOLEAN : EsignRun(p, u, c)
        \/ \E a \in AgIds, u \in Actors, tie \in BOOLEAN : GetPiiContact(p, a, u, tie)
        \/ \E c \in BOOLEAN : PiiWrite(p, c)
        \/ Abort(p)
    \/ Deliver

SpecPii == Init /\ [][NextPii]_vars

\* the ledgers under agreement creation, e-sign completion, status changes,
\* PII reads, the EventWriter, and statements that try to rewrite history
NextLedger ==
    \/ \E p \in Procs :
        \/ \E r \in Referrals : Creator(p, r)
        \/ \E a \in AgIds : TransitionBegin(p, a)
        \/ \E next \in AgreementStatus : TransitionLock(p, next)
        \/ \E u \in Actors, c \in BOOLEAN : TransitionWrite(p, u, c)
        \/ \E a \in AgIds, k \in Keys : EsignBegin(p, a, k)
        \/ EsignKey(p)
        \/ EsignMark(p)
        \/ \E u \in Actors, c \in BOOLEAN : EsignRun(p, u, c)
        \/ \E a \in AgIds, u \in Actors, tie \in BOOLEAN : GetPiiContact(p, a, u, tie)
        \/ \E c \in BOOLEAN : PiiWrite(p, c)
        \/ \E a \in AgIds : EventWriterBegin(p, a)
        \/ EventWriterAdvisory(p)
        \/ \E type \in {"OFFER_MADE", "DEAL_CLOSED"}, c \in BOOLEAN : EventWriterInsert(p, type, c)
        \/ \E table \in LedgerTables, op \in {"UPDATE", "DELETE"}, a \in AgIds :
               Tamper(p, table, op, a)
        \/ \E a \in AgIds, region \in Regions : RegionUpdate(p, a, region)
        \/ Abort(p)
    \/ Deliver

SpecLedger == Init /\ [][NextLedger]_vars

\* the agreement mustSeed inserts
SeededAgreement == 1

\* the state mustSeed leaves behind: a pending_signature agreement on the
\* referral, with one open invoice
InitSeeded ==
    /\ agreements = [a \in AgIds |-> IF a = 1 THEN NewAgreement(1, 1, 2, "pending_signature")
                                      ELSE NoRow]
    /\ referral_requests = [r \in Referrals |-> "open"]
    /\ cancel_reason = [r \in Referrals |-> Nil]
    /\ referral_matches = [m \in AllMatches |-> "invited"]
    /\ timeline_events = <<>>
    /\ outbox = <<>>
    /\ idempotency = {}
    /\ disputes = [d \in DisputeIds |-> NoRow]
    /\ audit_logs = <<>>
    /\ invoices = [i \in InvoiceIds |->
                      IF i = 1 THEN [agreement_id |-> 1, status |-> "open",
                                     is_invalidated |-> FALSE]
                      ELSE NoRow]
    /\ edge_invocations = [rk \in Routes \X Keys |-> "none"]
    /\ edge_effects = [rk \in Routes \X Keys |-> 0]
    /\ agreements_region_audit = <<>>
    /\ now = 0
    /\ tx = [p \in Procs |-> Idle]
    /\ ret = NoRes

\* disputes and invoices against e-sign completion and status changes, from
\* the seeded state
NextDispute ==
    \/ \E p \in Procs :
        \/ \E r \in Referrals : Creator(p, r)
        \/ \E a \in AgIds : TransitionBegin(p, a)
        \/ \E next \in AgreementStatus : TransitionLock(p, next)
        \/ \E u \in Actors, c \in BOOLEAN : TransitionWrite(p, u, c)
        \/ \E a \in AgIds, k \in Keys : EsignBegin(p, a, k)
        \/ EsignKey(p)
        \/ EsignMark(p)
        \/ \E u \in Actors, c \in BOOLEAN : EsignRun(p, u, c)
        \/ \E u \in Users, a \in AgIds : DisputeCreate(p, u, a)
        \/ \E u \in Users, d \in DisputeIds : DisputeResolve(p, u, d)
        \/ \E c \in BOOLEAN : ResolveApply(p, c)
        \/ \E a \in AgIds, st \in InvoiceStatus : InvoiceCreate(p, a, st)
        \/ Abort(p)
    \/ Deliver

SpecDispute == InitSeeded /\ [][NextDispute]_vars

\* edge adapters registering and completing invocations
NextEdge ==
    \/ \E p \in Procs :
        \/ \E route \in Routes, key \in Keys, fail \in BOOLEAN : EdgeRegister(p, route, key, fail)
        \/ EdgeComplete(p)
        \/ Abort(p)
    \/ Deliver

SpecEdge == Init /\ [][NextEdge]_vars

\* referral cancellation running against acceptance of a match by its
\* candidate, which locks the same referral request
NextReferral ==
    \/ \E p \in Procs :
        \/ \E m \in Matches : UpdateState(p, m, MatchCandidate[m], "accepted", TRUE)
        \/ AcceptLockMatch(p)
        \/ \E c \in BOOLEAN : AcceptLockReferral(p, c)
        \/ \E c \in BOOLEAN : AcceptInsert(p, c)
        \/ \E r \in ReferralInputs, u \in Users, role \in RoleInputs,
              input \in ReasonInputs, c \in BOOLEAN : Cancel(p, r, u, role, input, c)
        \/ Abort(p)
    \/ Deliver

SpecReferral == Init /\ [][NextReferral]_vars

\* match acceptance by each match's candidate, the one without a broker
\* included, running against the harness Creator
NextAccept ==
    \/ \E p \in Procs :
        \/ \E m \in AllMatches : UpdateState(p, m, MatchCandidate[m], "accepted", TRUE)
        \/ AcceptLockMatch(p)
        \/ \E c \in BOOLEAN : AcceptLockReferral(p, c)
        \/ \E c \in BOOLEAN : AcceptInsert(p, c)
        \/ \E r \in Referrals : Creator(p, r)
        \/ Abort(p)
    \/ Deliver

SpecAccept == Init /\ [][NextAccept]_vars

\* every kind of transaction that locks an agreement, on the seeded agreement:
\* status changes, e-sign completion, direct timeline appends, the PII
\* accessor and dispute resolution
NextLocks ==
    \/ \E p \in Procs :
        \/ TransitionBegin(p, SeededAgreement)
        \/ \E next \in {"effective", "success"} : TransitionLock(p, next)
        \/ \E c \in BOOLEAN : TransitionWrite(p, ReferralOwner[1], c)
        \/ EsignBegin(p, SeededAgreement, 1)
        \/ EsignKey(p)
        \/ EsignMark(p)
        \/ \E c \in BOOLEAN : EsignRun(p, ReferralOwner[1], c)
        \/ EventWriterBegin(p, SeededAgreement)
        \/ EventWriterAdvisory(p)
        \/ \E c \in BOOLEAN : EventWriterInsert(p, "OFFER_MADE", c)
        \/ GetPiiContact(p, SeededAgreement, ReferralOwner[1], FALSE)
        \/ \E c \in BOOLEAN : PiiWrite(p, c)
        \/ DisputeCreate(p, ReferralOwner[1], SeededAgreement)
        \/ \E d \in DisputeIds : DisputeResolve(p, ReferralOwner[1], d)
        \/ \E c \in BOOLEAN : ResolveApply(p, c)
        \/ Abort(p)
    \/ Deliver

SpecLocks == InitSeeded /\ [][NextLocks]_vars

\* the outbox workers draining what Create enqueues
NextOutbox ==
    \/ \E p \in Procs :
        \/ \E u \in Users, r \in Referrals, pair \in BrokerPairs, c \in BOOLEAN :
               Create(p, u, r, pair, c)
        \/ WorkerSelect(p)
        \/ \E failed \in SUBSET (1..MaxClock), c \in BOOLEAN : WorkerRun(p, failed, c)
        \/ Abort(p)
    \/ Deliver

SpecOutbox == Init /\ [][NextOutbox]_vars

\* a round of worker p in which the delivery of row i succeeds and the commit
\* goes through
Delivers(p, i) ==
    \E failed \in SUBSET (1..MaxClock) :
        /\ At(p, "worker_loop")
        /\ i \in tx[p].rows
        /\ i \notin failed
        /\ WorkerRun(p, failed, TRUE)

\* the workers keep running: the scheduler lets some enabled step happen,
\* results are taken, a worker with pending rows in reach starts a round, and
\* a delivery that is tried again and again does not fail every time
WorkersRun ==
    /\ WF_vars(NextOutbox)
    /\ WF_vars(Deliver)
    /\ \A p \in Procs :
           /\ SF_vars(WorkerSelect(p))
           /\ \A i \in 1..MaxClock : SF_vars(Delivers(p, i))

SpecOutboxLive == SpecOutbox /\ WorkersRun

\* ================================================================== claims
ActiveOf(r) ==
    {a \in AgIds : /\ agreements[a] # NoRow
                   /\ agreements[a].referral_id = r
                   /\ agreements[a].status \in {"pending_signature", "effective"}}

\* C1: in every state reached by any interleaving of match accepts, Create and
\* Transition, e-sign completions and harness inserts, every referral has at
\* most one agreement whose status is pending_signature or effective.
C1_OneActivePerReferral == \A r \in Referrals : Cardinality(ActiveOf(r)) <= 1

\* an operation was refused by the unique index while the referral has two
\* agreements, one of them active
C1_Witness ==
    /\ ret.op # "none" /\ ret.err = "23505"
    /\ \E a, b \in AgIds : /\ a # b
                           /\ agreements[a] # NoRow /\ agreements[b] # NoRow
                           /\ agreements[a].referral_id = agreements[b].referral_id
                           /\ a \in ActiveOf(agreements[a].referral_id)

\* C2: in every reachable state every agreement has status in {effective,
\* success, disputed} exactly when its effective_at is non-null.
C2_EffectiveAtPair ==
    \A a \in AgIds : agreements[a] # NoRow =>
        (agreements[a].status \in {"effective", "success", "disputed"}
            <=> agreements[a].effective_at # NULL)

\* the resolution of a dispute on a pending_signature agreement, which would
\* leave a disputed agreement without effective_at, was refused by the CHECK
C2_Witness ==
    /\ ret.op = "DisputeResolve" /\ ret.err = "23514"
    /\ agreements[ret.ag].status = "pending_signature"
    /\ agreements[ret.ag].effective_at = NULL

\* the twelve pairs of the transition table
AllowedPairs ==
    {<<"draft", "pending_signature">>, <<"draft", "void">>,
     <<"pending_signature", "effective">>, <<"pending_signature", "void">>,
     <<"effective", "success">>, <<"effective", "disputed">>,
     <<"effective", "void">>, <<"effective", "closed">>,
     <<"disputed", "void">>, <<"disputed", "closed">>,
     <<"success", "closed">>, <<"void", "closed">>}

\* the step returns from a Transition call that found its agreement
TransitionReturns ==
    /\ ret'.op = "Transition"
    /\ ret'.err \notin {"cancelled", "fetch current status"}

C4_AsStated ==
    [][TransitionReturns =>
        LET a    == ret'.ag
            prev == agreements[a].status
            next == ret'.next
        IN  (<<prev, next>> \in AllowedPairs /\ ret'.err \notin {"commit", "23505"}) =>
                /\ ret'.ok
                /\ agreements'[a].status = next
                /\ agreements'[a].status_updated_by = ret'.actor]_vars

EsignReturns ==
    /\ ret'.op = "HandleEsignCompletionWebhook"
    /\ ret'.err # "cancelled"

CountType(type) ==
    Cardinality({i \in 1..Len(timeline_events) : timeline_events[i].type = type})

CountTopic(topic) == Cardinality({i \in 1..Len(outbox) : outbox[i].topic = topic})

\* C5: a HandleEsignCompletionWebhook call whose idempotency key is already
\* committed returns success through the duplicate branch and commits nothing:
\* every table (agreements with status and effective_at, timeline, outbox,
\* idempotency) is the same after the call as before it.
C5_ReplayCommitsNothing ==
    [][(EsignReturns /\ ret'.key \in idempotency) =>
           ret'.ok /\ ret'.replay /\ tables' = tables]_vars

\* a replay returned success on an agreement the first call made effective,
\* which still has its one ESIGN_COMPLETED event
C5_Witness ==
    /\ ret.op = "HandleEsignCompletionWebhook" /\ ret.err # "cancelled"
    /\ ret.replay /\ ret.ok /\ ret.key \in idempotency
    /\ agreements[ret.ag] # NoRow /\ agreements[ret.ag].status = "effective"
    /\ Cardinality({i \in 1..Len(timeline_events) :
                       /\ timeline_events[i].agreement_id = ret.ag
                       /\ timeline_events[i].type = "ESIGN_COMPLETED"}) = 1

\* C6: calls that carry the same key never run the completion at the same
\* time; a call that runs it on a pending_signature agreement and commits
\* returns success, registers the key and adds exactly one ESIGN_COMPLETED event
\* and one outbox row; a call that finds the key committed returns success and
\* adds nothing; so the committed ESIGN_COMPLETED events and agreement.effective
\* outbox rows number exactly one per committed key.
C6_SameKeyOnce ==
    /\ [](/\ CountType("ESIGN_COMPLETED") = Cardinality(idempotency)
          /\ CountTopic("agreement.effective") = Cardinality(idempotency)
          /\ \A p, q \in Procs :
                 (p # q /\ tx[p].pc = "esign_run" /\ tx[q].pc = "esign_run")
                     => tx[p].key # tx[q].key)
    /\ [][EsignReturns =>
            /\ ret'.replay => ret'.ok /\ tables' = tables
            /\ (/\ ~ret'.replay
                /\ agreements[ret'.ag] # NoRow
                /\ agreements[ret'.ag].status = "pending_signature"
                /\ ret'.err # "commit") =>
                   /\ ret'.ok
                   /\ idempotency' = idempotency \cup {ret'.key}
                   /\ ret'.key \notin idempotency
                   /\ agreements'[ret'.ag].status = "effective"
                   /\ Len(timeline_events') = Len(timeline_events) + 1
                   /\ timeline_events'[Len(timeline_events')].type = "ESIGN_COMPLETED"
                   /\ Len(outbox') = Len(outbox) + 1]_vars

\* two overlapping calls with one key on one agreement have both returned
\* success: the replaying call began before the call that made the agreement
\* effective, and the agreement has one ESIGN_COMPLETED event and the outbox one
\* agreement.effective row
C6_Witness ==
    /\ ret.op = "HandleEsignCompletionWebhook" /\ ret.err # "cancelled"
    /\ ret.replay /\ ret.ok
    /\ agreements[ret.ag] # NoRow /\ agreements[ret.ag].status = "effective"
    /\ ret.ts < agreements[ret.ag].effective_at
    /\ idempotency = {ret.key}
    /\ CountType("ESIGN_COMPLETED") = 1
    /\ CountTopic("agreement.effective") = 1

\* the step returns from an UpdateState(accepted) call of the match's candidate
AcceptReturns ==
    /\ ret'.op = "UpdateState"
    /\ ret'.err \notin {"cancelled", "match forbidden", "get match"}
    /\ ret'.state = "accepted"

\* the agreements whose AGREEMENT_CREATED event names match m
CreatedFor(m) ==
    {timeline_events[i].agreement_id :
        i \in {j \in 1..Len(timeline_events) :
                  /\ timeline_events[j].type = "AGREEMENT_CREATED"
                  /\ timeline_events[j].match_id = m}}

\* C7 as stated: with the pool configured, an UpdateState(accepted) call made
\* after the accept that created the match's agreement returns success with that
\* agreement (non-nil, same id).
C7_AsStated ==
    [][(AcceptReturns /\ ret'.pool /\ ret'.seen = "accepted"
            /\ CreatedFor(ret'.match) # {}) =>
           ret'.ok /\ ret'.ag \in CreatedFor(ret'.match)]_vars

\* C8: an UpdateState(accepted) call with the pool configured that finds its
\* match invited, the referral open and no active agreement, and whose commit
\* goes through, returns success and commits in one step: the match accepted, a
\* new pending_signature agreement from the owner's broker to the candidate's
\* broker, one AGREEMENT_CREATED event of that agreement, one agreement.created
\* outbox row, and the referral matched.
C8_AcceptCreatesAgreement ==
    [][(/\ AcceptReturns /\ ret'.pool /\ ret'.err # "commit"
        /\ referral_matches[ret'.match] = "invited"
        /\ referral_requests[MatchRequest[ret'.match]] = "open"
        /\ ActiveOf(MatchRequest[ret'.match]) = {}) =>
           LET m == ret'.match
               r == MatchRequest[m]
               a == ret'.ag
           IN  /\ ret'.ok
               /\ referral_matches' = [referral_matches EXCEPT ![m] = "accepted"]
               /\ a \in AgIds /\ agreements[a] = NoRow
               /\ \A b \in AgIds \ {a} : agreements'[b] = agreements[b]
               /\ agreements'[a].status = "pending_signature"
               /\ agreements'[a].referral_id = r
               /\ agreements'[a].from_broker_id = UserBroker[ReferralOwner[r]]
               /\ agreements'[a].to_broker_id = UserBroker[MatchCandidate[m]]
               /\ Len(timeline_events') = Len(timeline_events) + 1
               /\ SubSeq(timeline_events', 1, Len(timeline_events)) = timeline_events
               /\ timeline_events'[Len(timeline_events')].type = "AGREEMENT_CREATED"
               /\ timeline_events'[Len(timeline_events')].agreement_id = a
               /\ outbox' = Append(outbox, [topic |-> "agreement.created", agreement_id |-> a,
                                            status |-> "pending", attempts |-> 0,
                                            last_attempt |-> NULL])
               /\ referral_requests' = [referral_requests EXCEPT ![r] = "matched"]]_vars

\* an accept returned the agreement it created: the match is accepted, the
\* referral matched, the agreement pending_signature with its one event
C8_Witness ==
    /\ ret.op = "UpdateState" /\ ret.ok /\ ret.state = "accepted" /\ ret.pool
    /\ ret.seen = "invited" /\ ret.ag # NULL
    /\ ret.ag \in CreatedFor(ret.match)
    /\ agreements[ret.ag].status = "pending_signature"
    /\ referral_matches[ret.match] = "accepted"
    /\ referral_requests[MatchRequest[ret.match]] = "matched"

\* C9: an UpdateState(accepted) call that finds its match already accepted
\* returns success and changes no table: agreements, timeline, outbox, match
\* states and referral statuses are the same after it as before it.
C9_RepeatedAcceptAddsNothing ==
    [][(AcceptReturns /\ ret'.seen = "accepted") => ret'.ok /\ tables' = tables]_vars

\* a repeated accept returned on a match whose first accept created an agreement
C9_Witness ==
    /\ ret.op = "UpdateState" /\ ret.ok /\ ret.state = "accepted"
    /\ ret.seen = "accepted"
    /\ CreatedFor(ret.match) # {}
    /\ referral_matches[ret.match] = "accepted"

\* the seq values of agreement a's committed events, in insertion order
SeqsOf(a) ==
    LET idx == {i \in 1..Len(timeline_events) : timeline_events[i].agreement_id = a}
        F[i \in 0..Len(timeline_events)] ==
            IF i = 0 THEN <<>>
            ELSE IF i \in idx THEN Append(F[i - 1], timeline_events[i].seq) ELSE F[i - 1]
    IN  F[Len(timeline_events)]

\* C10: for every agreement the committed timeline events carry seq 1, 2, ...,
\* n in insertion order, whatever appends were rolled back in between.
C10_SeqGapFree ==
    \A a \in AgIds : \A i \in 1..Len(SeqsOf(a)) : SeqsOf(a)[i] = i

\* an append to an agreement with two committed events was rolled back at commit
C10_Witness ==
    /\ ret.op = "Transition" /\ ret.err = "commit"
    /\ Len(SeqsOf(ret.ag)) >= 2
\* C11: every OFFER_MADE, ESIGN_COMPLETED or DEAL_CLOSED event in the ledger
\* belongs to an agreement whose current state is effective, success or
\* disputed, and carries a timestamp not earlier than that agreement's
\* effective_at.
C11_GatedEventsAfterEffective ==
    \A i \in 1..Len(timeline_events) :
        LET e == timeline_events[i]
        IN  e.type \in GatedTypes =>
                /\ agreements[e.agreement_id].status \in {"effective", "success", "disputed"}
                /\ agreements[e.agreement_id].effective_at # NULL
                /\ e.ts >= agreements[e.agreement_id].effective_at

\* an agreement carrying a gated event, on which an EventWriter insert that
\* passed the temporal check has just been refused for want of a broker context
C11_Witness ==
    /\ ret.op = "EventWriter" /\ ret.err = "broker_context_required"
    /\ \E i \in 1..Len(timeline_events) :
           /\ timeline_events[i].type \in GatedTypes
           /\ timeline_events[i].agreement_id = ret.ag

\* p starts a GetPiiContact call in this step
PiiStarts(p) ==
    /\ ret = NoRes /\ ~Busy(p)
    /\ \/ tx'[p].pc = "pii_update"
       \/ ret'.op = "GetPiiContact" /\ ret'.proc = p

\* the agreement and the transaction time of the call p starts in this step
PiiStartAg(p) == IF tx'[p].pc = "pii_update" THEN tx'[p].a ELSE ret'.ag
PiiStartTs(p) == IF tx'[p].pc = "pii_update" THEN tx'[p].ts ELSE ret'.ts

\* C12: GetPiiContact on an agreement that does not exist, is not in state
\* effective, or whose effective_at is null or later than the transaction time
\* fails, writes no PII_READ audit row and leaves pii_first_access_time (and
\* every table) unchanged.
C12_PiiRefused ==
    [][\A p \in Procs :
          LET a   == PiiStartAg(p)
              row == agreements[a]
          IN  (/\ PiiStarts(p)
               /\ \/ row = NoRow
                  \/ row.status # "effective"
                  \/ row.effective_at = NULL
                  \/ PiiStartTs(p) < row.effective_at)
              => /\ ret'.op = "GetPiiContact" /\ ret'.proc = p /\ ~ret'.ok
                 /\ ~Busy(p)'
                 /\ tables' = tables]_vars

\* a read of a disputed agreement refused as not effective, with no audit row written
C12_Witness ==
    /\ ret.op = "GetPiiContact" /\ ret.err = "not effective"
    /\ agreements[ret.ag].status = "disputed"
    /\ Len(audit_logs) = 0

\* C13: the first successful GetPiiContact on an agreement sets
\* pii_first_access_time to the transaction time, later successful calls leave
\* it unchanged, each successful call appends exactly one PII_READ audit row,
\* and nothing else writes the stamp or the audit log.
C13_FirstAccessOnce ==
    [][IF ret'.op = "GetPiiContact" /\ ret'.ok /\ ret = NoRes
       THEN LET a == ret'.ag
            IN  /\ audit_logs' = Append(audit_logs, AuditRow(a, ret'.actor, ret'.ts))
                /\ agreements[a].pii_first_access_time = NULL
                      => agreements'[a].pii_first_access_time = ret'.ts
                /\ agreements[a].pii_first_access_time # NULL
                      => agreements'[a] = agreements[a]
                /\ \A b \in AgIds \ {a} : agreements'[b] = agreements[b]
       ELSE /\ audit_logs' = audit_logs
            /\ \A b \in AgIds :
                   (agreements[b] # NoRow /\ agreements'[b] # NoRow)
                       => agreements'[b].pii_first_access_time = agreements[b].pii_first_access_time]_vars

\* a second successful read of one agreement, at a later transaction time than
\* the first: two audit rows, the stamp still that of the first read
C13_Witness ==
    /\ ret.op = "GetPiiContact" /\ ret.ok
    /\ Len(audit_logs) = 2
    /\ audit_logs[1].agreement_id = ret.ag /\ audit_logs[2].agreement_id = ret.ag
    /\ agreements[ret.ag].pii_first_access_time = audit_logs[1].ts
    /\ audit_logs[2].ts > audit_logs[1].ts

\* C14: every PII_READ audit row has a timestamp strictly greater than the
\* effective_at of its agreement (oracle O4_pii_gate_bypass).
C14_AsStated ==
    \A i \in 1..Len(audit_logs) :
        audit_logs[i].action = "PII_READ"
            => audit_logs[i].ts > agreements[audit_logs[i].agreement_id].effective_at

\* the first n rows of a ledger are still there, unchanged
KeepsPrefix(old, new) ==
    /\ Len(new) >= Len(old)
    /\ \A i \in 1..Len(old) : new[i] = old[i]

\* C15: the ledgers are append-only.  An UPDATE or DELETE that reaches a
\* timeline event, a DELETE that reaches an agreement, and an UPDATE or DELETE
\* that reaches an audit row each raise an error; every committed timeline
\* event and audit row stays present and unchanged, and no agreement is removed.
C15_AppendOnly ==
    [][/\ KeepsPrefix(timeline_events, timeline_events')
       /\ KeepsPrefix(audit_logs, audit_logs')
       /\ \A a \in AgIds : agreements[a] # NoRow => agreements'[a] # NoRow
       /\ (ret'.op = "Tamper" /\ ret = NoRes /\ ret'.rows > 0)
              => ~ret'.ok /\ tables' = tables]_vars

\* a DELETE on the audit rows of an agreement refused, with a timeline event
\* and an audit row of that agreement on record
C15_Witness ==
    /\ ret.op = "Tamper" /\ ret.table = "audit_logs" /\ ret.stmt = "DELETE"
    /\ ret.err = "audit_logs are append-only"
    /\ RowsOf(audit_logs, ret.ag) # {}
    /\ RowsOf(timeline_events, ret.ag) # {}

\* C19: an UPDATE that changes an agreement's region raises an error and
\* aborts; an agreement's committed region never changes after its creation,
\* and agreements_region_audit never holds a committed row.
C19_RegionImmutable ==
    /\ [](agreements_region_audit = <<>>)
    /\ [][/\ \A a \in AgIds :
                agreements[a] # NoRow => agreements'[a].region = agreements[a].region
          /\ (/\ ret'.op = "RegionUpdate" /\ ret = NoRes
              /\ ret'.rows > 0
              /\ ret'.region # agreements[ret'.ag].region)
                 => ~ret'.ok /\ tables' = tables]_vars

\* an UPDATE naming another region has just been refused on an effective agreement
C19_Witness ==
    /\ ret.op = "RegionUpdate" /\ ret.err = "Agreement region is immutable"
    /\ agreements[ret.ag].status = "effective"
    /\ agreements[ret.ag].region = DefaultRegion /\ ret.region # DefaultRegion

\* a Resolve call that ran to its end returns in this step
ResolveReturns ==
    /\ ret = NoRes
    /\ ret'.op = "DisputeResolve"
    /\ ret'.err \notin {"cancelled", "commit"}

\* the invoices of agreement a the resolution has to invalidate
OpenInvoices(inv, a) ==
    {i \in InvoiceIds : /\ inv[i] # NoRow
                        /\ inv[i].agreement_id = a
                        /\ inv[i].status \notin {"paid", "written_off"}}

C17_AsStated ==
    \A d \in DisputeIds :
        (disputes[d] # NoRow /\ disputes[d].status = "resolved")
            => /\ agreements[disputes[d].agreement_id].status = "disputed"
               /\ \A i \in OpenInvoices(invoices, disputes[d].agreement_id) :
                      invoices[i].is_invalidated

\* C18 (amended): a Resolve call by the owner that runs to its end fails with
\* BadStatus and changes nothing when the dispute is already resolved when its
\* row is examined; on an under_review dispute it succeeds when the agreement
\* has an effective_at, and otherwise fails on the agreement's CHECK constraint
\* and changes nothing.  So of two concurrent calls at most one succeeds, the
\* other then fails with BadStatus, and a resolved dispute is never written
\* again (the coupling effects are applied once).
C18_ResolveOnce ==
    [][/\ (/\ ResolveReturns
           /\ disputes[ret'.dispute] # NoRow
           /\ ReferralOwner[agreements[disputes[ret'.dispute].agreement_id].referral_id]
                  = ret'.owner)
              => IF disputes[ret'.dispute].status = "resolved"
                 THEN ret'.err = "bad status" /\ tables' = tables
                 ELSE IF agreements[ret'.ag].effective_at # NULL
                 THEN ret'.ok /\ disputes'[ret'.dispute].status = "resolved"
                 ELSE ret'.err = "23514" /\ tables' = tables
       /\ \A d \in DisputeIds :
              (disputes[d] # NoRow /\ disputes[d].status = "resolved")
                  => disputes'[d] = disputes[d]]_vars

\* the second of two concurrent Resolve calls, started while the dispute was
\* under review, has found it resolved once it held the row and failed with
\* BadStatus
C18_Witness ==
    /\ ret.op = "DisputeResolve" /\ ret.err = "bad status" /\ ret.locked
    /\ disputes[ret.dispute].status = "resolved"
    /\ agreements[ret.ag].status = "disputed"

\* C18 as stated: a Resolve call by the owner on an under_review or resolved
\* dispute either succeeds or fails with BadStatus (of two concurrent calls
\* exactly one succeeds and the other fails with BadStatus)
C18_AsStated ==
    [][(/\ ResolveReturns
        /\ disputes[ret'.dispute] # NoRow
        /\ ReferralOwner[agreements[disputes[ret'.dispute].agreement_id].referral_id]
               = ret'.owner)
           => ret'.err \in {"", "bad status"}]_vars

\* C20: for any number of EdgeAdapter executions registering the same
\* (route, key), the completion step is performed by at most one of them, the
\* one whose insert registered the row; an adapter that finds the row already
\* registered skips it.
C20_AsStated ==
    /\ [](\A rk \in Routes \X Keys : edge_effects[rk] <= 1)
    /\ [][(/\ ret = NoRes /\ ret'.op = "EdgeAdapter"
            /\ ret'.err # "cancelled"
            /\ ret'.performed)
             => ret'.registered]_vars

\* the status of the i-th outbox row, "none" while there is no such row
OutboxStatus(i) == IF i <= Len(outbox) THEN outbox[i].status ELSE "none"

\* C21: every outbox row committed with status pending is eventually marked
\* processed or dead, as long as the workers keep running under fair
\* scheduling, even though single deliveries may fail.
C21_PendingEventuallyHandled ==
    \A i \in 1..MaxClock :
        (OutboxStatus(i) = "pending") ~> (OutboxStatus(i) \in {"processed", "dead"})

\* a row was marked processed after an earlier delivery of it had failed
C21_Witness ==
    \E i \in 1..Len(outbox) :
        /\ outbox[i].status = "processed"
        /\ outbox[i].attempts >= 1

\* C22: an outbox message whose processing keeps failing has attempts
\* incremented and last_attempt set on each failure and, once a retry budget
\* (here any budget up to MaxAttempts failures) is used up, is dead and no
\* longer pending.
C22_AsStated ==
    \E budget \in 1..MaxAttempts :
        \A i \in 1..Len(outbox) :
            outbox[i].attempts >= budget => outbox[i].status # "pending"

\* a Cancel call returns in this step
CancelReturns == ret = NoRes /\ ret'.op = "Cancel"

\* t is s without its leading and trailing spaces
Trimmed(s, t) ==
    \E i, j \in 0..Len(s) :
        /\ i + j <= Len(s)
        /\ t = SubSeq(s, i + 1, Len(s) - j)
        /\ \A k \in 1..i : s[k] = " "
        /\ \A k \in (Len(s) - j + 1)..Len(s) : s[k] = " "
        /\ t # <<>> => t[1] # " " /\ t[Len(t)] # " "

\* C23: Cancel succeeds only for role agent or broker_admin, a non-admin actor
\* who created the request, and a request that is open or matched; then the
\* status becomes cancelled and the stored reason is the trimmed input, or
\* null when the input is absent or trims to nothing.  A Cancel that does not
\* succeed returns an error, forbidden or invalid state when one of the three
\* conditions fails, and leaves every status and cancel_reason as it was.
C23_CancelContract ==
    [][CancelReturns =>
       LET r     == ret'.referral
           admin == ret'.role = "broker_admin"
           may   == /\ ret'.role \in {"agent", "broker_admin"}
                    /\ admin \/ ReferralOwner[r] = ret'.actor
           state == referral_requests[r] \in {"open", "matched"}
       IN  IF ret'.ok
           THEN /\ may /\ state
                /\ referral_requests' = [referral_requests EXCEPT ![r] = "cancelled"]
                /\ \A q \in Referrals \ {r} : cancel_reason'[q] = cancel_reason[q]
                /\ IF ret'.input = Nil \/ Trimmed(ret'.input[1], <<>>)
                   THEN cancel_reason'[r] = Nil
                   ELSE /\ cancel_reason'[r] # Nil
                        /\ Trimmed(ret'.input[1], cancel_reason'[r][1])
           ELSE /\ referral_requests' = referral_requests
                /\ cancel_reason' = cancel_reason
                /\ ret'.err # ""
                /\ r \in Referrals /\ ~may => ret'.err = "cancel forbidden"
                /\ r \in Referrals /\ may /\ ~state => ret'.err = "cancel invalid state"]_vars

\* C23 witness: a matched request was cancelled by its creator with a reason
\* that had white space on both sides, and the trimmed reason is stored
C23_Witness ==
    /\ ret.op = "Cancel" /\ ret.ok
    /\ ret.seen = "matched"
    /\ ret.role = "agent"
    /\ ret.input = Ptr(<<" ", "x", " ">>)
    /\ referral_requests[ret.referral] = "cancelled"
    /\ cancel_reason[ret.referral] = Ptr(<<"x">>)

\* C24: every successful Cancel commits, with the status change to cancelled,
\* exactly one referral.cancelled outbox message carrying the referral id, the
\* status and the reason when one was stored.
C24_AsStated ==
    [][CancelReturns /\ ret'.ok =>
       /\ Len(outbox') = Len(outbox) + 1
       /\ SubSeq(outbox', 1, Len(outbox)) = outbox
       /\ outbox'[Len(outbox')].topic = "referral.cancelled"
       /\ outbox'[Len(outbox')].payload =
              [referral_id |-> ret'.referral, status |-> "cancelled",
               reason |-> cancel_reason'[ret'.referral]]]_vars

\* C25: a match leaves invited at most once.  Every committed change of a
\* match is invited -> accepted or invited -> declined; an UpdateState asking
\* for the other state of a match that is accepted or declined is rejected
\* and changes neither the match nor an agreement; a decline never creates or
\* changes an agreement.
C25_AsStated ==
    [][/\ \A m \in Matches :
              referral_matches'[m] # referral_matches[m] => referral_matches[m] = "invited"
       /\ ret = NoRes /\ ret'.op = "UpdateState" /\ ret'.err # "cancelled" =>
              /\ referral_matches[ret'.match] \notin {"invited", ret'.state} =>
                     ~ret'.ok /\ referral_matches' = referral_matches
              /\ ret'.state = "declined" => agreements' = agreements]_vars

\* the transitions of the agreement state machine
AllowedTransitions ==
    {<<"draft", "pending_signature">>, <<"draft", "void">>,
     <<"pending_signature", "effective">>, <<"pending_signature", "void">>,
     <<"effective", "success">>, <<"effective", "disputed">>, <<"effective", "void">>,
     <<"effective", "closed">>, <<"disputed", "void">>, <<"disputed", "closed">>,
     <<"success", "closed">>, <<"void", "closed">>}

\* C26: every committed change of an agreement's status, by Transition, by
\* HandleEsignCompletion or by the dispute-resolution trigger, is an allowed
\* transition; in particular no agreement goes from draft, void, closed,
\* success or disputed to effective, and none from success to disputed.
C26_AsStated ==
    [][\A a \in AgIds :
           agreements[a] # NoRow /\ agreements'[a].status # agreements[a].status =>
               /\ <<agreements[a].status, agreements'[a].status>> \in AllowedTransitions
               /\ agreements'[a].status = "effective" =>
                      agreements[a].status \notin {"draft", "void", "closed", "success", "disputed"}
               /\ agreements'[a].status = "disputed" => agreements[a].status # "success"]_vars

\* the step commits a timeline event of agreement a
EventAdded(a) ==
    \E i \in (Len(timeline_events) + 1)..Len(timeline_events') :
        timeline_events'[i].agreement_id = a

\* the step commits an outbox message about agreement a
OutboxAdded(a) ==
    \E i \in (Len(outbox) + 1)..Len(outbox') : outbox'[i].agreement_id = a

\* the step commits a new status of agreement a (its first one included)
StatusChanged(a) == agreements'[a].status # agreements[a].status

\* every outbox row the step commits comes from a call whose transaction
\* committed, with a timeline event of the same agreement in the same step
OutboxWithMutation ==
    \A i \in (Len(outbox) + 1)..Len(outbox') :
        /\ ret'.err \in {"", "get match"}
        /\ EventAdded(outbox'[i].agreement_id)

\* C27: every committed change of an agreement's status by match accept,
\* Create, Transition or HandleEsignCompletion comes, in the same transaction,
\* with at least one timeline event of that agreement and at least one outbox
\* message; and no outbox row is committed without the mutation it describes.
\* (The status written by the dispute-resolution trigger is not covered.)
C27_MutationWithRecords ==
    [][/\ \A a \in AgIds :
              StatusChanged(a) /\ ret'.op \notin {"Creator", "DisputeResolve"} =>
                  EventAdded(a) /\ OutboxAdded(a)
       /\ OutboxWithMutation]_vars

\* C27 witness: a Transition committed a new status together with its
\* AGREEMENT_STATUS_CHANGED event and its agreement.status_changed message
C27_Witness ==
    /\ ret.op = "Transition" /\ ret.ok
    /\ agreements[ret.ag].status = ret.next
    /\ Len(timeline_events) > 0 /\ Len(outbox) > 0
    /\ timeline_events[Len(timeline_events)].agreement_id = ret.ag
    /\ timeline_events[Len(timeline_events)].type = "AGREEMENT_STATUS_CHANGED"
    /\ outbox[Len(outbox)] = OutboxRow("agreement.status_changed", ret.ag)

\* C27 as stated: dispute Resolve included among the operations
C27_AsStated ==
    [][/\ \A a \in AgIds :
              StatusChanged(a) /\ ret'.op # "Creator" => EventAdded(a) /\ OutboxAdded(a)
       /\ OutboxWithMutation]_vars

AcceptanceEnds ==
    /\ ret = NoRes
    /\ ret'.op = "UpdateState"
    /\ tx[ret'.proc].pc \in {"accept_lock_referral", "accept_insert"}

\* what only a committed acceptance leaves behind: a match is accepted only
\* when its referral has an active agreement, and every timeline event and
\* outbox row belongs to an agreement that exists
NoTraceOfFailedAccept ==
    /\ \A m \in AllMatches :
           referral_matches[m] = "accepted" =>
               ExistingActive(agreements, MatchRequest[m]) # {}
    /\ \A i \in 1..Len(timeline_events) :
           agreements[timeline_events[i].agreement_id] # NoRow
    /\ \A i \in 1..Len(outbox) : agreements[outbox[i].agreement_id] # NoRow
    /\ \A r \in Referrals :
           referral_requests[r] = "matched" => ExistingActive(agreements, r) # {}

\* C29: when a step of match acceptance fails after the match was marked
\* accepted inside the transaction and before the transaction has committed
\* (a user without broker, a refused insert, a failed commit, a cancelled
\* call), UpdateState returns an error and no table has changed: the match is
\* as it was, there is no new agreement, timeline event or outbox row, and the
\* referral status is the same.
C29_FailedAcceptInvisible ==
    /\ [][AcceptanceEnds /\ ret'.err \notin {"", "get match"} =>
              /\ ~ret'.ok
              /\ tables' = tables]_vars
    /\ []NoTraceOfFailedAccept

\* C29 witness: the acceptance of the match whose candidate has no broker
\* failed, and the match is still invited with no agreement, event or outbox row
C29_Witness ==
    /\ ret.op = "UpdateState" /\ ret.err = "broker missing"
    /\ ret.match = BrokerlessMatch
    /\ referral_matches[BrokerlessMatch] = "invited"
    /\ \A a \in AgIds : agreements[a] = NoRow
    /\ timeline_events = <<>> /\ outbox = <<>>
    /\ referral_requests[MatchRequest[BrokerlessMatch]] = "open"

\* C29 as stated: whenever the call returns an error, nothing of the
\* acceptance is visible
C29_AsStated ==
    [][AcceptanceEnds /\ ~ret'.ok => tables' = tables]_vars

\* C30: no interleaving of transactions on one agreement reaches a deadlock:
\* in every reachable state, of any set of waiting transactions at least one
\* waits for no other member of the set.
C30_AsStated == \A S \in SUBSET Procs : ~Deadlocked(S)

\* the values app.broker_id can hold: unset, or the id of a broker
BrokerSettings == {NULL} \cup {UserBroker[u] : u \in DOMAIN UserBroker}

\* C31: the writer guard refuses an insert exactly when the broker context is
\* unset or names a broker that is neither from_broker nor to_broker of the
\* agreement; an EventWriter call, which sets no context, never succeeds; and
\* every committed timeline event carries a non-null actor_broker_id that is
\* one of the two brokers of its agreement.
C31_TimelineWriterGuard ==
    /\ \A a \in AgIds, b \in BrokerSettings :
         Exists(agreements, a) =>
            (trg_guard_timeline_writer(agreements[a], b) # ""
                <=> (b = NULL \/ b \notin {agreements[a].from_broker_id,
                                          agreements[a].to_broker_id}))
    /\ ret # NoRes /\ ret.op = "EventWriter" => ~ret.ok
    /\ \A i \in 1..Len(timeline_events) :
         LET ev == timeline_events[i]
         IN  /\ ev.actor_broker_id # NULL
             /\ Exists(agreements, ev.agreement_id)
             /\ ev.actor_broker_id \in {agreements[ev.agreement_id].from_broker_id,
                                        agreements[ev.agreement_id].to_broker_id}

\* an EventWriter insert on an existing agreement that already has events was
\* refused for the missing broker context
C31_Witness ==
    /\ ret # NoRes /\ ret.op = "EventWriter"
    /\ ret.err = "broker_context_required"
    /\ Exists(agreements, ret.ag)
    /\ \E i \in 1..Len(timeline_events) : timeline_events[i].agreement_id = ret.ag

RoundSelects(p) == tx[p].pc = "idle" /\ tx'[p].pc = "worker_loop"

\* a committed round of a worker ends in this step
RoundCommits == ret = NoRes /\ ret'.op = "OutboxWorker" /\ ret'.ok

C34_FailedCompletionRolledBack ==
    /\ [](\A p \in Procs :
             tx[p].pc \in {"esign_run", "esign_event"} => tx[p].key \notin idempotency)
    /\ [][/\ (ret = NoRes /\ ret'.op = "HandleEsignCompletionWebhook" /\ ~ret'.ok)
               => tables' = tables
          /\ EsignReturns =>
               /\ ret'.replay => ret'.key \in idempotency
               /\ (~ret'.replay /\ ~ret'.ok) => ret'.key \notin idempotency'
               /\ (~ret'.replay /\ ret'.ok) =>
                     ret'.key \notin idempotency /\ ret'.key \in idempotency']_vars

\* a call that had reserved its key and marked a pending_signature agreement
\* effective failed at commit: the key is not committed, the agreement is
\* still pending_signature and has no ESIGN_COMPLETED event
C34_Witness ==
    /\ ret.op = "HandleEsignCompletionWebhook" /\ ret.err = "commit"
    /\ ~ret.replay
    /\ ret.key \notin idempotency
    /\ agreements[ret.ag].status = "pending_signature"
    /\ agreements[ret.ag].effective_at = NULL
    /\ CountType("ESIGN_COMPLETED") = 0

\* C35: an effective_at that is set is never altered or cleared: no step of
\* HandleEsignCompletionWebhook, Transition, dispute Resolve or any other
\* transaction changes a non-null effective_at of an agreement.
C35_EffectiveAtFrozen ==
    [][\A a \in AgIds :
          (Exists(agreements, a) /\ agreements[a].effective_at # NULL)
             => /\ Exists(agreements', a)
                /\ agreements'[a].effective_at = agreements[a].effective_at]_vars

\* a completion with a fresh key committed on an agreement that an earlier
\* transaction had made effective: effective_at is still the earlier time
C35_Witness ==
    /\ ret.op = "HandleEsignCompletionWebhook" /\ ret.ok
    /\ ~ret.replay
    /\ agreements[ret.ag].effective_at # NULL
    /\ agreements[ret.ag].effective_at < ret.ts

\* the PII_READ audit rows of agreement a, by position (commit order)
PiiReadsOf(a) ==
    {i \in 1..Len(audit_logs) :
        audit_logs[i].action = "PII_READ" /\ audit_logs[i].agreement_id = a}

\* C36 (amended): an agreement has a pii_first_access_time exactly when it has
\* a PII_READ audit row, and the value is the ts of the first of these rows
\* to be committed -- the row of the transaction that set it.
C36_FirstAccessIsFirstCommitted ==
    \A a \in AgIds :
        Exists(agreements, a) =>
            IF PiiReadsOf(a) = {}
            THEN agreements[a].pii_first_access_time = NULL
            ELSE LET first == CHOOSE i \in PiiReadsOf(a) : \A j \in PiiReadsOf(a) : i <= j
                 IN  /\ agreements[a].pii_first_access_time # NULL
                     /\ agreements[a].pii_first_access_time = audit_logs[first].ts

\* two reads of one agreement overlapped: the read that began later set
\* pii_first_access_time and committed first, the read that began earlier
\* added its audit row afterwards
C36_Witness ==
    \E a \in AgIds :
        /\ Exists(agreements, a)
        /\ \E i, j \in PiiReadsOf(a) :
              /\ i < j
              /\ audit_logs[j].ts < audit_logs[i].ts
              /\ agreements[a].pii_first_access_time = audit_logs[i].ts

\* C36 as stated: pii_first_access_time is at most the ts of every PII_READ
\* audit row of the agreement and equals the ts of one of them.
C36_AsStated ==
    \A a \in AgIds :
        (Exists(agreements, a) /\ agreements[a].pii_first_access_time # NULL) =>
            /\ \A i \in PiiReadsOf(a) :
                  agreements[a].pii_first_access_time <= audit_logs[i].ts
            /\ \E i \in PiiReadsOf(a) :
                  agreements[a].pii_first_access_time = audit_logs[i].ts

\* C37: no step inserts an agreement for a referral whose committed status is
\* cancelled: a cancelled referral never gains an agreement.
C37_AsStated ==
    [][\A a \in AgIds :
          (~Exists(agreements, a) /\ Exists(agreements', a))
             => referral_requests[agreements'[a].referral_id] # "cancelled"]_vars

\* an event is appended to the timeline in this step
Appends == Len(timeline_events') = Len(timeline_events) + 1

C39_KeyNamespaceGlobal ==
    [][\A p \in Procs :
          (/\ tx[p].pc = "esign_key"
           /\ tx[p].key \in idempotency
           /\ tx'[p] # tx[p])
             => /\ ~Busy(p)'
                /\ ret'.op = "HandleEsignCompletionWebhook" /\ ret'.proc = p
                /\ ret'.err \in {"", "cancelled"}
                /\ ret'.err = "" => ret'.replay /\ ret'.ag = tx[p].a /\ ret'.key = tx[p].key
                /\ tables' = tables]_vars

\* a call carrying a committed key was answered as a successful replay for
\* an agreement that has no completion of its own
C39_Witness ==
    /\ ret.op = "HandleEsignCompletionWebhook" /\ ret.ok
    /\ ret.replay
    /\ ret.key \in idempotency
    /\ ~\E i \in 1..Len(timeline_events) :
           /\ timeline_events[i].agreement_id = ret.ag
           /\ timeline_events[i].type = "ESIGN_COMPLETED"
    /\ \E a \in AgIds \ {ret.ag} : Exists(agreements, a) /\ agreements[a].status = "effective"

====
